---- MODULE Spec2Model ----
(***************************************************************************)
(* Lap segmentation engine of the telemetry writer: SessionManager         *)
(* (src/src/session_manager.py), SampleNormalizer (src/src/mvp_format.py), *)
(* TelemetryLoop (src/src/telemetry_loop.py) and OpponentTracker           *)
(* (src/src/opponent_tracker.py).                                          *)
(*                                                                         *)
(* Numbers are integers in fixed units:                                    *)
(*   time      0.01 s   (5.0 s = 500, the 0.02 s slack = 2)                *)
(*   distance  0.1 m    (5.0 m = 50, the 0.1 m progress step = 1)          *)
(*   speed     1 km/h                                                      *)
(*   percent   0.01 %   (a raw fraction 1.0 = 100, 100 % = 10000)          *)
(* A Python Optional is a sequence: None is << >>, a value x is <<x>>.     *)
(***************************************************************************)
EXTENDS Integers, Sequences, FiniteSets, TLC

VARIABLES
    session_manager,   \* the SessionManager object's fields
    running,           \* TelemetryLoop._running
    paused,            \* TelemetryLoop._paused
    suspend_logging,   \* TelemetryLoop._suspend_logging
    _min_speed_kmh,    \* TelemetryLoop._min_speed_kmh: the minimum speed as configured
    opponent_tracker,  \* the OpponentTracker: its options and driver name -> state
    now,               \* the wall clock read by time.time()
    op,                \* the last call: its name, inputs and results
    hist               \* what earlier calls did, as the properties need it

vars == <<session_manager, running, paused, suspend_logging, _min_speed_kmh, opponent_tracker, now, op, hist>>

---------------------------------------------------------------------------
(* Optional values *)

None == << >>
Some(x) == <<x>>
Val(o) == o[1]

Max(a, b) == IF a >= b THEN a ELSE b
Min(a, b) == IF a <= b THEN a ELSE b

---------------------------------------------------------------------------
(* Program constants *)

IdleTimeoutDefault == 500
MinSpeedDefault == 1
LapResetToleranceDefault == 50
ProgressStep == 1
TimeSlack == 2

---------------------------------------------------------------------------
(* Raw telemetry samples: the reader's dict. A key that is absent (or whose *)
(* value is None or does not parse as a number) is None here; 'lap' is read *)
(* with telemetry.get('lap', 0). track_length_present tells whether the key *)
(* 'track_length' is in the dict, with whatever value.                      *)

NoTelemetry ==
    [lap |-> 0, lap_distance |-> None, speed |-> None, lap_time |-> None,
     track_length |-> None, track_length_present |-> FALSE, rpm |-> None,
     throttle |-> None, brake |-> None,
     steering |-> None, gear |-> None, position_x |-> None,
     position_z |-> None, sector |-> None, sector_boundaries |-> << >>]

\* What a sample holds under the key 'track_length': nothing (the key is not
\* in the mapping), a value that is no number (None, or a text float()
\* rejects), or a number. 'track_length' is the one key whose presence the
\* code tests (session_manager.py line 91); every other read treats a key
\* that is missing and a value that is no number alike, as None.
TrackLengthEntries(numbers) ==
    {[present |-> FALSE, value |-> None], [present |-> TRUE, value |-> None]}
    \cup {[present |-> TRUE, value |-> Some(x)] : x \in numbers}

---------------------------------------------------------------------------
(* SampleNormalizer *)

to_float(value, default) == IF value # None THEN Val(value) ELSE default

optional_float(value) == value

to_int(value, default) == IF value # None THEN Val(value) ELSE default

percent_value(value) ==
    IF value = None THEN 0
    ELSE LET number == IF -150 <= Val(value) /\ Val(value) <= 150
                       THEN Val(value) * 100 ELSE Val(value)
         IN Max(0, Min(10000, number))

steering_value(value) ==
    IF value = None THEN 0
    ELSE LET number == IF -200 <= Val(value) /\ Val(value) <= 200
                       THEN Val(value) * 100 ELSE Val(value)
         IN Max(-10000, Min(10000, number))

\* A float that is not finite: float('inf'), and -FloatInfinity for
\* float('-inf').
FloatInfinity == 1000000000

\* int(...) of a value that is not finite leaves with OverflowError, which
\* the except clauses do not name.
int_overflows(value) ==
    value # None /\ Val(value) \in {FloatInfinity, -FloatInfinity}

\* A sector resolution that takes the first boundary at or beyond the
\* lap distance.
resolve_sector_inclusive(telemetry, lap_distance) ==
    IF telemetry.sector # None
    THEN LET sector == Val(telemetry.sector)
         IN Max(0, IF sector > 0 THEN sector - 1 ELSE sector)
    ELSE IF telemetry.sector_boundaries # << >>
    THEN LET b == telemetry.sector_boundaries
             hits == {i \in 1..Len(b) : lap_distance <= b[i]}
         IN IF hits # {}
            THEN (CHOOSE i \in hits : \A j \in hits : i <= j) - 1
            ELSE Len(b) - 1
    ELSE LET track_length == to_float(telemetry.track_length, 0)
         IN IF track_length > 0
            THEN IF lap_distance <= 0 THEN 0
                 ELSE Min(2, (3 * lap_distance) \div track_length)
            ELSE 0

resolve_sector(telemetry, lap_distance) ==
    IF telemetry.sector # None
    THEN LET sector == Val(telemetry.sector)
         IN Max(0, IF sector > 0 THEN sector - 1 ELSE sector)
    ELSE IF telemetry.sector_boundaries # << >>
    THEN LET b == telemetry.sector_boundaries
             hits == {i \in 1..Len(b) : lap_distance < b[i]}
         IN IF hits # {}
            THEN (CHOOSE i \in hits : \A j \in hits : i <= j) - 1
            ELSE Len(b) - 1
    ELSE LET track_length == to_float(telemetry.track_length, 0)
         IN IF track_length > 0
            THEN IF lap_distance <= 0 THEN 0
                 ELSE Min(2, (3 * lap_distance) \div track_length)
            ELSE 0

normalize(telemetry) ==
    LET lap_distance == to_float(telemetry.lap_distance, 0)
    IN [LapDistance |-> lap_distance,
        Sector |-> resolve_sector(telemetry, lap_distance),
        Speed |-> to_float(telemetry.speed, 0),
        EngineRevs |-> to_float(telemetry.rpm, 0),
        ThrottlePercentage |-> percent_value(telemetry.throttle),
        BrakePercentage |-> percent_value(telemetry.brake),
        Steer |-> steering_value(telemetry.steering),
        Gear |-> to_int(telemetry.gear, 0),
        X |-> optional_float(telemetry.position_x),
        Z |-> optional_float(telemetry.position_z)]

\* The exception that leaves normalize: the sector and the gear are the two
\* values converted with int(...).
normalize_raises(telemetry) ==
    int_overflows(telemetry.sector) \/ int_overflows(telemetry.gear)

---------------------------------------------------------------------------
(* detect_sector_boundaries: samples are records of a lap distance and the *)
(* three cumulative split times, a missing or None value read as 0          *)

\* sorted(telemetry_samples, key=lap_distance): a stable sort
RECURSIVE sorted_samples(_)
sorted_samples(samples) ==
    IF samples = << >> THEN << >>
    ELSE LET n == Len(samples)
             rest == sorted_samples(SubSeq(samples, 1, n - 1))
             last == samples[n]
             k == Cardinality({i \in 1..(n - 1) :
                                  rest[i].lap_distance <= last.lap_distance})
         IN SubSeq(rest, 1, k) \o <<last>> \o SubSeq(rest, k + 1, n - 1)

\* The loop over the sorted samples from index i on: prev holds the split
\* times of the sample before, boundaries what was appended so far.
RECURSIVE split_transitions(_, _, _, _)
split_transitions(sorted, i, prev, boundaries) ==
    IF i > Len(sorted) THEN boundaries
    ELSE LET sample == sorted[i]
             found ==
                 IF prev.sector1_time = 0 /\ sample.sector1_time > 0 THEN TRUE
                 ELSE IF prev.sector2_time = 0 /\ sample.sector2_time > 0
                 THEN TRUE
                 ELSE prev.sector3_time = 0 /\ sample.sector3_time > 0
         IN split_transitions(sorted, i + 1, sample,
                IF found THEN Append(boundaries, sample.lap_distance)
                ELSE boundaries)

\* The boundaries as they are returned, without the final track length.
boundaries_without_track_length(boundaries, track_length) ==
    IF boundaries = << >> /\ track_length > 0
    THEN [boundaries |-> <<track_length \div 3, (track_length * 2) \div 3,
                           track_length>>,
          num_sectors |-> 3]
    ELSE [boundaries |-> boundaries,
          num_sectors |-> IF boundaries # << >> THEN Len(boundaries) ELSE 3]

\* lines 414-426
boundaries_and_count(boundaries, track_length) ==
    IF boundaries = << >> /\ track_length > 0
    THEN [boundaries |-> <<track_length \div 3, (track_length * 2) \div 3,
                           track_length>>,
          num_sectors |-> 3]
    ELSE LET b == IF /\ track_length > 0
                     /\ \/ boundaries = << >>
                        \/ 100 * boundaries[Len(boundaries)] < 95 * track_length
                  THEN Append(boundaries, track_length)
                  ELSE boundaries
         IN [boundaries |-> b,
             num_sectors |-> IF b # << >> THEN Len(b) ELSE 3]

detect_sector_boundaries(telemetry_samples, track_length) ==
    boundaries_and_count(
        split_transitions(sorted_samples(telemetry_samples), 1,
                          [lap_distance |-> 0, sector1_time |-> 0,
                           sector2_time |-> 0, sector3_time |-> 0], << >>),
        track_length)

---------------------------------------------------------------------------
(* SessionManager *)

SessionManagerInit(idle_timeout, min_speed_kmh, lap_reset_tolerance) ==
    [state |-> "idle",
     current_lap |-> 0,
     current_session_id |-> None,
     lap_samples |-> << >>,
     idle_timeout |-> Max(0, idle_timeout),
     min_speed_kmh |-> Max(0, min_speed_kmh),
     lap_reset_tolerance |-> Max(0, lap_reset_tolerance),
     last_progress_time |-> None,
     last_lap_distance |-> None,
     lap_start_timestamp |-> None,
     last_lap_time |-> 0,
     track_length |-> 0]

extract_float(value) == value

\* A track length that follows the latest value reported.
update_track_length_latest(sm, telemetry) ==
    LET candidate == extract_float(telemetry.track_length)
        t1 == IF candidate # None /\ Val(candidate) # 0
              THEN Val(candidate) ELSE sm.track_length
        lap_distance == extract_float(telemetry.lap_distance)
        t2 == IF lap_distance # None /\ Val(lap_distance) # 0
                 /\ Val(lap_distance) > t1
              THEN Val(lap_distance) ELSE t1
    IN [sm EXCEPT !.track_length = t2]

update_track_length(sm, telemetry) ==
    LET candidate == extract_float(telemetry.track_length)
        t1 == IF candidate # None /\ Val(candidate) # 0
                 /\ Val(candidate) > sm.track_length
              THEN Val(candidate) ELSE sm.track_length
        lap_distance == extract_float(telemetry.lap_distance)
        t2 == IF lap_distance # None /\ Val(lap_distance) # 0
                 /\ Val(lap_distance) > t1
              THEN Val(lap_distance) ELSE t1
    IN [sm EXCEPT !.track_length = t2]

\* A reset test that forgets the tolerance.
lap_distance_reset_no_tolerance(lap_distance, last_lap_distance, lap_reset_tolerance) ==
    /\ lap_distance # None
    /\ last_lap_distance # None
    /\ Val(lap_distance) < Val(last_lap_distance)

\* lines 155-159: the abrupt lap distance reset test
lap_distance_reset(lap_distance, last_lap_distance, lap_reset_tolerance) ==
    /\ lap_distance # None
    /\ last_lap_distance # None
    /\ Val(lap_distance) + lap_reset_tolerance < Val(last_lap_distance)

\* lines 163-172: the progress timer after this sample
track_progress(sm, lap_distance, speed, timestamp) ==
    LET p0 == IF timestamp # None /\ sm.last_progress_time = None
              THEN timestamp ELSE sm.last_progress_time
        p1 == IF /\ lap_distance # None
                 /\ \/ sm.last_lap_distance = None
                    \/ Val(lap_distance) > Val(sm.last_lap_distance) + ProgressStep
                 /\ timestamp # None
              THEN timestamp ELSE p0
    IN IF speed # None /\ Val(speed) >= sm.min_speed_kmh /\ timestamp # None
       THEN timestamp ELSE p1

\* line 169: the lap distance kept for the next update
record_lap_distance(last_lap_distance, lap_distance) ==
    IF lap_distance # None THEN lap_distance ELSE last_lap_distance

\* An idle test that needs more than the timeout to elapse.
idle_timeout_fires_strict(idle_timeout, timestamp, last_progress_time, already_stopped) ==
    /\ idle_timeout > 0
    /\ timestamp # None
    /\ last_progress_time # None
    /\ Val(timestamp) - Val(last_progress_time) > idle_timeout
    /\ ~already_stopped

\* An idle test that overwrites a stop reason already set.
idle_timeout_fires_over_reset(idle_timeout, timestamp, last_progress_time, already_stopped) ==
    /\ idle_timeout > 0
    /\ timestamp # None
    /\ last_progress_time # None
    /\ Val(timestamp) - Val(last_progress_time) >= idle_timeout

\* lines 175-182: the idle timeout test
idle_timeout_fires(idle_timeout, timestamp, last_progress_time, already_stopped) ==
    /\ idle_timeout > 0
    /\ timestamp # None
    /\ last_progress_time # None
    /\ Val(timestamp) - Val(last_progress_time) >= idle_timeout
    /\ ~already_stopped

\* A stop that leaves the progress timer where it was.
progress_after_stop_kept(session_stopped, timestamp, last_progress_time) ==
    last_progress_time

\* lines 184-186: the progress timer after a stop fired
progress_after_stop(session_stopped, timestamp, last_progress_time) ==
    IF session_stopped # "none" /\ timestamp # None
    THEN timestamp ELSE last_progress_time

detect_stop_conditions(sm, telemetry, timestamp) ==
    LET lap_distance == extract_float(telemetry.lap_distance)
        speed == extract_float(telemetry.speed)
        reset == lap_distance_reset(lap_distance, sm.last_lap_distance,
                                    sm.lap_reset_tolerance)
        progress == track_progress(sm, lap_distance, speed, timestamp)
        idle == idle_timeout_fires(sm.idle_timeout, timestamp, progress, reset)
        session_stopped == IF idle THEN "idle_timeout"
                           ELSE IF reset THEN "lap_distance_reset"
                           ELSE "none"
    IN [sm |-> [sm EXCEPT
                  !.last_lap_distance =
                      record_lap_distance(sm.last_lap_distance, lap_distance),
                  !.last_progress_time =
                      progress_after_stop(session_stopped, timestamp, progress)],
        session_stopped |-> session_stopped]

\* line 68: the lap change test
lap_changed(new_lap, current_lap) == new_lap # current_lap /\ current_lap > 0

update(sm, telemetry, timestamp) ==
    LET new_lap == telemetry.lap
        lap_completed == lap_changed(new_lap, sm.current_lap)
        s1 == IF lap_completed /\ timestamp # None
              THEN [sm EXCEPT !.lap_start_timestamp = timestamp,
                              !.last_lap_time = 0]
              ELSE sm
        s2 == [s1 EXCEPT !.current_lap = new_lap]
        s3 == IF s2.current_lap > 0 /\ s2.lap_start_timestamp = None
                 /\ timestamp # None
              THEN [s2 EXCEPT !.lap_start_timestamp = timestamp]
              ELSE s2
        s4 == update_track_length(s3, telemetry)
        r == detect_stop_conditions(s4, telemetry, timestamp)
    IN [sm |-> r.sm,
        events |-> [lap_completed |-> lap_completed,
                    session_stopped |-> r.session_stopped]]

\* A selection that does not clamp to the previous lap time.
select_time_value_unclamped(last_lap_time, reported_time, computed_time) ==
    IF computed_time # None THEN Val(computed_time)
    ELSE IF reported_time # None /\ Val(reported_time) >= 0
    THEN Val(reported_time) ELSE last_lap_time

select_time_value(last_lap_time, reported_time, computed_time) ==
    LET valid_reported == IF reported_time # None /\ Val(reported_time) >= 0
                          THEN reported_time ELSE None
        chosen == IF computed_time # None
                  THEN IF valid_reported = None
                          \/ Val(valid_reported) < Val(computed_time) - TimeSlack
                       THEN Val(computed_time)
                       ELSE Max(Val(valid_reported), Val(computed_time))
                  ELSE IF valid_reported # None THEN Val(valid_reported)
                       ELSE last_lap_time
    IN IF chosen < last_lap_time THEN last_lap_time ELSE chosen

assign_lap_time(sm, normalized, timestamp) ==
    LET start == IF timestamp # None /\ sm.lap_start_timestamp = None
                 THEN timestamp ELSE sm.lap_start_timestamp
        reported_time == IF "LapTime" \in DOMAIN normalized
                         THEN Some(normalized.LapTime) ELSE None
        computed_time == IF timestamp # None /\ start # None
                         THEN Some(Max(0, Val(timestamp) - Val(start)))
                         ELSE None
        lap_time == select_time_value(sm.last_lap_time, reported_time,
                                      computed_time)
    IN [sm |-> [sm EXCEPT !.lap_start_timestamp = start,
                          !.last_lap_time = lap_time],
        normalized |-> [k \in DOMAIN normalized \cup {"LapTime"} |->
                          IF k = "LapTime" THEN lap_time ELSE normalized[k]]]

\* A duplicate test that looks at lap distance and lap time only.
is_duplicate_sample_by_distance(lap_samples, normalized) ==
    IF lap_samples = << >> THEN FALSE
    ELSE LET last == lap_samples[Len(lap_samples)]
         IN normalized.LapDistance = last.LapDistance
            /\ normalized.LapTime = last.LapTime

is_duplicate_sample(lap_samples, normalized) ==
    IF lap_samples = << >> THEN FALSE
    ELSE normalized = lap_samples[Len(lap_samples)]

\* line 91 tests the presence of the key: a 'track_length' that is present
\* without a number is not replaced by the stored track length
add_sample(sm, telemetry, timestamp) ==
    LET t1 == IF ~telemetry.track_length_present /\ sm.track_length > 0
              THEN [telemetry EXCEPT !.track_length = Some(sm.track_length),
                                     !.track_length_present = TRUE]
              ELSE telemetry
        r == assign_lap_time(sm, normalize(t1), timestamp)
    IN IF is_duplicate_sample(r.sm.lap_samples, r.normalized)
       THEN r.sm
       ELSE [r.sm EXCEPT !.lap_samples = Append(@, r.normalized)]

get_lap_data(sm) == sm.lap_samples

clear_lap_buffer(sm) == [sm EXCEPT !.lap_samples = << >>, !.last_lap_time = 0]

get_lap_summary(sm) ==
    IF sm.lap_samples = << >> THEN None
    ELSE LET last_sample == sm.lap_samples[Len(sm.lap_samples)]
         IN Some([lap |-> sm.current_lap,
                  lap_time |-> last_sample.LapTime,
                  samples_count |-> Len(sm.lap_samples),
                  lap_distance |-> last_sample.LapDistance])

---------------------------------------------------------------------------
(* TelemetryLoop. The on_lap_complete callback is configured; a call of it  *)
(* is a record of the lap summary it was given and the number of samples.   *)

generate_session_id(current_time) == Some(current_time)

\* lines 213-229; reason "none" is reason=None
flush_lap(sm, reason, callback_raises) ==
    LET lap_data == get_lap_data(sm)
    IN IF lap_data = << >>
       THEN [sm |-> clear_lap_buffer(sm), calls |-> << >>, raised |-> FALSE,
             cleared |-> TRUE]
       ELSE LET summary == Val(get_lap_summary(sm))
                lap_summary ==
                    [lap |-> summary.lap,
                     lap_time |-> summary.lap_time,
                     samples_count |-> summary.samples_count,
                     lap_distance |-> summary.lap_distance,
                     stop_reason |-> reason,
                     lap_completed |-> (reason = "none")]
                call == [lap_summary |-> lap_summary,
                         n_samples |-> Len(lap_data)]
            IN IF callback_raises
               THEN [sm |-> sm, calls |-> <<call>>, raised |-> TRUE,
                     cleared |-> FALSE]
               ELSE [sm |-> clear_lap_buffer(sm), calls |-> <<call>>,
                     raised |-> FALSE, cleared |-> TRUE]

sample_indicates_active(telemetry, min_speed_kmh) ==
    telemetry.speed # None /\ Val(telemetry.speed) >= min_speed_kmh

\* lines 102-111
initial_status(sm) ==
    [state |-> sm.state, process_detected |-> FALSE,
     telemetry_available |-> FALSE, lap |-> sm.current_lap,
     samples_buffered |-> Len(sm.lap_samples), lap_completed |-> FALSE,
     session_stopped |-> FALSE, stop_reason |-> "none", error |-> FALSE]

\* lines 166-168 and 179-181
refreshed(status, sm) ==
    [status EXCEPT !.state = sm.state, !.lap = sm.current_lap,
                   !.samples_buffered = Len(sm.lap_samples)]

\* An except clause that also drops the buffered samples.
tick_failed_dropping_buffer(sm, suspend, status, calls, flushes) ==
    [sm |-> clear_lap_buffer([sm EXCEPT !.state = "error"]),
     suspend |-> suspend,
     status |-> [status EXCEPT !.state = "error", !.error = TRUE],
     calls |-> calls, cleared |-> TRUE, read |-> TRUE, raised |-> FALSE,
     flushes |-> flushes]

\* lines 183-186
tick_failed(sm, suspend, status, calls, flushes) ==
    [sm |-> [sm EXCEPT !.state = "error"], suspend |-> suspend,
     status |-> [status EXCEPT !.state = "error", !.error = TRUE],
     calls |-> calls, cleared |-> FALSE, read |-> TRUE, raised |-> FALSE,
     flushes |-> flushes]

\* One call of _flush_lap as a tick made it: the event it answered, the
\* summaries it gave to the callback and the buffer it left.
flushed(cause, f) ==
    [cause |-> cause, calls |-> f.calls, buffer_after |-> Len(f.sm.lap_samples)]

\* lines 176-186: add_sample and the refreshed status of a tick that is not
\* suspended; when the normalizer raises inside add_sample, which is before
\* add_sample has assigned anything, the except clause
log_sample(sm, status, telemetry, calls, cleared, flushes) ==
    IF normalize_raises(telemetry)
    THEN [tick_failed(sm, FALSE, status, calls, flushes)
             EXCEPT !.cleared = cleared]
    ELSE LET sm5 == add_sample(sm, telemetry, None)
         IN [sm |-> sm5, suspend |-> FALSE, status |-> refreshed(status, sm5),
             calls |-> calls, cleared |-> cleared, read |-> TRUE,
             raised |-> FALSE, flushes |-> flushes]

\* lines 142-186: the try block and its except clause, which catches
\* whatever the block raises; reading is None when read() raises.
\* min_speed_kmh is the loop's own _min_speed_kmh (line 46), the configured
\* value, which the SessionManager keeps clamped at 0.
read_and_log(sm, min_speed_kmh, suspend, status, reading, callback_raises, current_time) ==
    IF reading = None THEN tick_failed(sm, suspend, status, << >>, << >>)
    ELSE
    LET telemetry == Val(reading)
        u == update(sm, telemetry, Some(current_time))
        f1 == IF u.events.lap_completed
              THEN flush_lap(u.sm, "none", callback_raises)
              ELSE [sm |-> u.sm, calls |-> << >>, raised |-> FALSE,
                    cleared |-> FALSE]
        status1 == [status EXCEPT !.lap_completed = u.events.lap_completed]
        stop_reason == u.events.session_stopped
        f2 == IF stop_reason # "none"
              THEN flush_lap(f1.sm, stop_reason, callback_raises)
              ELSE [sm |-> f1.sm, calls |-> << >>, raised |-> FALSE,
                    cleared |-> FALSE]
        calls == f1.calls \o f2.calls
        flushes1 == IF u.events.lap_completed
                    THEN <<flushed("lap_completed", f1)>> ELSE << >>
        flushes == IF stop_reason # "none"
                   THEN Append(flushes1, flushed(stop_reason, f2))
                   ELSE flushes1
        cleared == f1.cleared \/ f2.cleared
        sm3 == IF stop_reason # "none" /\ f2.sm.state = "logging"
               THEN [f2.sm EXCEPT !.state = "detected"] ELSE f2.sm
        status2 == IF stop_reason # "none"
                   THEN [status1 EXCEPT !.session_stopped = TRUE,
                                        !.stop_reason = stop_reason]
                   ELSE status1
        suspend1 == IF stop_reason # "none" THEN TRUE ELSE suspend
        sm4 == IF sm3.state = "detected"
               THEN [sm3 EXCEPT !.state = "logging",
                                !.current_session_id =
                                    generate_session_id(current_time)]
               ELSE sm3
    IN IF f1.raised
       THEN tick_failed(f1.sm, suspend, status1, f1.calls, flushes1)
       ELSE IF f2.raised
       THEN tick_failed(f2.sm, suspend, status1, calls, flushes)
       ELSE IF suspend1 /\ ~sample_indicates_active(telemetry, min_speed_kmh)
       THEN [sm |-> sm3, suspend |-> TRUE, status |-> refreshed(status2, sm3),
             calls |-> calls, cleared |-> cleared, read |-> TRUE,
             raised |-> FALSE, flushes |-> flushes]
       ELSE log_sample(sm4, status2, telemetry, calls, cleared, flushes)

\* A process-absent branch that drops nothing from the buffer.
force_idle_keeping_buffer(sm) ==
    [sm EXCEPT !.state = "idle"]

\* A process-absent branch that clears the buffer of a logging session only.
force_idle_from_logging(sm) ==
    IF sm.state = "logging" THEN clear_lap_buffer([sm EXCEPT !.state = "idle"])
    ELSE [sm EXCEPT !.state = "idle"]

\* lines 119-121
force_idle(sm) ==
    IF sm.state # "idle" THEN clear_lap_buffer([sm EXCEPT !.state = "idle"])
    ELSE sm

\* A paused tick that drops the buffered samples.
paused_tick_dropping_buffer(sm, suspend, status) ==
    [sm |-> clear_lap_buffer(sm), suspend |-> suspend, status |-> status,
     calls |-> << >>, cleared |-> TRUE, read |-> FALSE,
     raised |-> FALSE, flushes |-> << >>]

\* lines 130-131: the tick of a paused loop returns the status
paused_tick(sm, suspend, status) ==
    [sm |-> sm, suspend |-> suspend, status |-> status,
     calls |-> << >>, cleared |-> FALSE, read |-> FALSE,
     raised |-> FALSE, flushes |-> << >>]

\* lines 134-137: the tick that finds no telemetry ends the suspension and
\* returns the status
telemetry_unavailable(sm, suspend, status) ==
    [sm |-> sm, suspend |-> FALSE, status |-> status,
     calls |-> << >>, cleared |-> FALSE, read |-> FALSE,
     raised |-> FALSE, flushes |-> << >>]

\* lines 100-188, for a loop that is running. process_check and
\* availability_check are what process_monitor.is_running() and
\* telemetry_reader.is_available() do: None when the call raises, else the
\* boolean it returns. Both calls stand outside the try block, so an exception
\* of theirs leaves run_once (raised), with the assignments made so far kept.
run_once(sm, min_speed_kmh, is_paused, suspend, process_check, availability_check, reading, callback_raises, current_time) ==
    LET status == [initial_status(sm) EXCEPT
                      !.process_detected = (process_check = Some(TRUE))]
        detected == IF sm.state = "idle" THEN [sm EXCEPT !.state = "detected"]
                    ELSE sm
    IN IF process_check = None
       THEN [sm |-> sm, suspend |-> suspend, status |-> status,
             calls |-> << >>, cleared |-> FALSE, read |-> FALSE,
             raised |-> TRUE, flushes |-> << >>]
       ELSE IF ~Val(process_check)
       THEN [sm |-> force_idle(sm),
             suspend |-> FALSE, status |-> status, calls |-> << >>,
             cleared |-> sm.state # "idle", read |-> FALSE, raised |-> FALSE,
             flushes |-> << >>]
       ELSE IF is_paused
       THEN paused_tick(detected, suspend, status)
       ELSE IF availability_check = None
       THEN [sm |-> detected, suspend |-> suspend, status |-> status,
             calls |-> << >>, cleared |-> FALSE, read |-> FALSE,
             raised |-> TRUE, flushes |-> << >>]
       ELSE IF ~Val(availability_check)
       THEN telemetry_unavailable(detected, suspend, status)
       ELSE read_and_log(detected, min_speed_kmh, suspend,
                         [status EXCEPT !.telemetry_available = TRUE],
                         reading, callback_raises, current_time)

\* line 68: the state pause() leaves
pause(sm) == [sm EXCEPT !.state = "paused"]

\* lines 73-74: the state resume() leaves
resume(sm) ==
    IF sm.state = "paused" THEN [sm EXCEPT !.state = "logging"] ELSE sm

---------------------------------------------------------------------------
(* OpponentTracker. A telemetry key that is absent has the value its .get   *)
(* default gives; float('inf') is Infinity, above every lap time.           *)

Infinity == << >>

NoOpponentTelemetry ==
    [driver_name |-> "", control |-> -1, lap |-> 0, last_lap_time |-> 0,
     lap_time |-> 0]

OpponentTrackerInit(track_remote_only, track_ai) ==
    [opponents |-> << >>, track_remote_only |-> track_remote_only,
     track_ai |-> track_ai]

\* A control filter that lets replay vehicles pass.
should_track_replays(control, track_ai) ==
    IF control \in {-1, 0} THEN FALSE
    ELSE IF control \in {2, 3} THEN TRUE
    ELSE IF control = 1 THEN track_ai
    ELSE FALSE

\* lines 139-166
should_track(control, track_ai) ==
    IF control \in {-1, 0, 3} THEN FALSE
    ELSE IF control = 2 THEN TRUE
    ELSE IF control = 1 THEN track_ai
    ELSE FALSE

\* lines 75-80
new_opponent(timestamp) ==
    [current_lap |-> 0, samples |-> << >>, fastest_lap_time |-> Infinity,
     lap_start_timestamp |-> timestamp]

\* line 87
opponent_lap_increased(current_lap, opponent_lap) ==
    current_lap > opponent_lap /\ opponent_lap > 0

\* A fastest-lap test that also passes a lap equal to the fastest.
not_slower_than_fastest(lap_time, fastest_lap_time) ==
    fastest_lap_time = Infinity \/ lap_time <= Val(fastest_lap_time)

\* line 103
faster_than_fastest(lap_time, fastest_lap_time) ==
    fastest_lap_time = Infinity \/ lap_time < Val(fastest_lap_time)

\* An out-lap test that lets a lap time of 0 pass as a completed lap.
negative_lap_time(lap_time) == lap_time < 0

\* line 95
invalid_lap_time(lap_time) == lap_time <= 0

\* A record built from the buffer of the lap that begins.
lap_record_of_new_lap(driver_name, opponent, lap_time) ==
    [driver_name |-> driver_name,
     lap_number |-> opponent.current_lap,
     lap_time |-> lap_time,
     samples |-> << >>,
     is_fastest |-> TRUE]

\* lines 110-122; samples is opponent['samples'].copy()
lap_record(driver_name, opponent, lap_time) ==
    [driver_name |-> driver_name,
     lap_number |-> opponent.current_lap,
     lap_time |-> lap_time,
     samples |-> opponent.samples,
     is_fastest |-> TRUE]

update_opponent(tracker, telemetry, timestamp) ==
    LET driver_name == telemetry.driver_name
        known == IF driver_name \in DOMAIN tracker.opponents
                 THEN tracker.opponents
                 ELSE (driver_name :> new_opponent(timestamp))
                      @@ tracker.opponents
        opponent == known[driver_name]
        current_lap == telemetry.lap
        lap_time == telemetry.last_lap_time
        is_fastest == faster_than_fastest(lap_time, opponent.fastest_lap_time)
        fastest == IF is_fastest THEN Some(lap_time)
                   ELSE opponent.fastest_lap_time
        lap_data == lap_record(driver_name, opponent, lap_time)
        stored(o) == [tracker EXCEPT
                         !.opponents = (driver_name :> o) @@ known]
    IN IF driver_name = ""
       THEN [tracker |-> tracker, completed |-> << >>]
       ELSE IF ~should_track(telemetry.control, tracker.track_ai)
       THEN [tracker |-> tracker, completed |-> << >>]
       ELSE IF opponent_lap_increased(current_lap, opponent.current_lap)
       THEN IF invalid_lap_time(lap_time)
            THEN [tracker |->
                     stored([opponent EXCEPT
                                !.samples = << >>,
                                !.lap_start_timestamp = timestamp,
                                !.current_lap = current_lap]),
                  completed |-> << >>]
            ELSE [tracker |->
                     stored([opponent EXCEPT
                                !.fastest_lap_time = fastest,
                                !.samples = <<telemetry>>,
                                !.lap_start_timestamp = timestamp,
                                !.current_lap = current_lap]),
                  completed |-> IF fastest = Infinity \/ is_fastest
                                THEN <<lap_data>> ELSE << >>]
       ELSE [tracker |->
                stored([opponent EXCEPT
                           !.current_lap = current_lap,
                           !.samples = IF current_lap > 0
                                       THEN Append(@, telemetry) ELSE @]),
             completed |-> << >>]

get_opponent_count(tracker) == Cardinality(DOMAIN tracker.opponents)

\* A reset that empties the drivers' states and keeps the drivers.
reset_keeping_drivers(tracker) ==
    [tracker EXCEPT !.opponents = [x \in DOMAIN @ |-> new_opponent(None)]]

reset(tracker) == [tracker EXCEPT !.opponents = << >>]

---------------------------------------------------------------------------
(* Bounds and input sets *)

MaxLap == 2
MaxSamples == 3

Times == {0, IdleTimeoutDefault - 10, IdleTimeoutDefault,
          IdleTimeoutDefault + 10, 2 * IdleTimeoutDefault + 10}
Distances == {100, 5000 - LapResetToleranceDefault - ProgressStep,
              5000 - LapResetToleranceDefault, 4970, 5000}
Speeds == {0, 50}
Optional(S) == {None} \cup {Some(x) : x \in S}

IdleTimeoutConfigs == {-IdleTimeoutDefault, 0, IdleTimeoutDefault}
ToleranceConfigs == {0, LapResetToleranceDefault}

Drivers == {"alice", "bob"}
CompletedTimes == <<9520, 10100, 8840, 14000, 8000>>
EmittedTimes == <<9520, 8840, 8000>>

HistInit ==
    [prev_distance |-> None,      \* lap distance of the latest update that had one
     claimed_progress |-> None,   \* latest forward move or active speed
     progress_instant |-> None,   \* the same, or latest stop
     last_stop_time |-> None,     \* timestamp of the latest update that stopped
     seg_start |-> 0,             \* buffer length when the current lap began
     prev_assigned |-> None,      \* lap time of the previous sample of this lap
     handed_over |-> << >>,       \* per buffered sample: was it given to the callback
     handed_twice |-> FALSE,      \* a sample was given to the callback a second time
     best_seen |-> [d \in Drivers |-> None],     \* least positive time at a lap increase
     last_emitted |-> [d \in Drivers |-> None],  \* lap time of the latest record
     emitted_slower |-> FALSE,                   \* a record was not faster than the latest
     out_lap |-> [d \in Drivers |-> FALSE],     \* its latest lap increase had no valid time
     followed |-> {},                            \* drivers seen under a control the options follow
     script |-> [d \in Drivers |-> 0],           \* how far the driver followed CompletedTimes
     emitted |-> [d \in Drivers |-> << >>]]      \* lap times of its records meanwhile

LoopIdle ==
    /\ running = FALSE
    /\ _min_speed_kmh = MinSpeedDefault
    /\ paused = FALSE
    /\ suspend_logging = FALSE
    /\ opponent_tracker = OpponentTrackerInit(TRUE, FALSE)

---------------------------------------------------------------------------
(* SessionManager.update called on its own, with and without a timestamp *)

TeleportTimes == {0, IdleTimeoutDefault - 10, IdleTimeoutDefault + 10}
TeleportSamples ==
    {[NoTelemetry EXCEPT !.lap = 1, !.lap_distance = d, !.speed = Some(s)] :
        d \in Optional(Distances), s \in Speeds}

IdleDistances == {5000 - LapResetToleranceDefault - ProgressStep,
                  5000 - LapResetToleranceDefault, 5000}
IdleSamples ==
    {[NoTelemetry EXCEPT !.lap = 1, !.lap_distance = d, !.speed = s] :
        d \in Optional(IdleDistances), s \in Optional(Speeds)}

InitStop ==
    /\ \E it \in IdleTimeoutConfigs, tol \in ToleranceConfigs :
          session_manager = SessionManagerInit(it, MinSpeedDefault, tol)
    /\ LoopIdle
    /\ now = 0
    /\ op = [name |-> "init"]
    /\ hist = HistInit

\* A forward move or an active speed, as the progress timer counts them.
MovedForward(sm, telemetry) ==
    /\ telemetry.lap_distance # None
    /\ sm.last_lap_distance # None
    /\ Val(telemetry.lap_distance) > Val(sm.last_lap_distance) + ProgressStep

ActiveSpeed(sm, telemetry) ==
    telemetry.speed # None /\ Val(telemetry.speed) >= sm.min_speed_kmh

\* The first timestamped update and the first lap distance recorded start
\* the progress timer.
StartsTimer(sm, telemetry, progress) ==
    \/ progress = None
    \/ (telemetry.lap_distance # None /\ sm.last_lap_distance = None)

\* The latest progress instant up to and including this update: forward
\* moves and active speeds (and the start of the timer), but not stops.
ClaimedProgress(sm, telemetry, timestamp) ==
    IF timestamp # None
       /\ \/ MovedForward(sm, telemetry)
          \/ ActiveSpeed(sm, telemetry)
          \/ StartsTimer(sm, telemetry, hist.claimed_progress)
    THEN timestamp ELSE hist.claimed_progress

\* The same, where an earlier update that reported a stop counts as a
\* progress instant too (HistAfterUpdate records it).
ProgressInstant(sm, telemetry, timestamp) ==
    IF timestamp # None
       /\ \/ MovedForward(sm, telemetry)
          \/ ActiveSpeed(sm, telemetry)
          \/ StartsTimer(sm, telemetry, hist.progress_instant)
    THEN timestamp ELSE hist.progress_instant

HistAfterUpdate(sm, telemetry, timestamp, events) ==
    LET stopped == timestamp # None /\ events.session_stopped # "none"
    IN [hist EXCEPT
          !.prev_distance = IF telemetry.lap_distance # None
                            THEN telemetry.lap_distance ELSE @,
          !.claimed_progress = ClaimedProgress(sm, telemetry, timestamp),
          !.progress_instant =
              IF stopped THEN timestamp
              ELSE ProgressInstant(sm, telemetry, timestamp),
          !.last_stop_time = IF stopped THEN timestamp ELSE @]

SMUpdate(times, samples) ==
    \E t \in times, telemetry \in samples, with_timestamp \in BOOLEAN :
        LET timestamp == IF with_timestamp THEN Some(t) ELSE None
            r == update(session_manager, telemetry, timestamp)
        IN /\ t >= now
           /\ now' = t
           /\ session_manager' = r.sm
           /\ op' = [name |-> "update", telemetry |-> telemetry,
                     timestamp |-> timestamp, events |-> r.events,
                     prev_lap |-> session_manager.current_lap,
                     prev_distance |-> hist.prev_distance,
                     prev_stop_time |-> hist.last_stop_time,
                     claimed_progress |->
                         ClaimedProgress(session_manager, telemetry, timestamp),
                     progress_instant |->
                         ProgressInstant(session_manager, telemetry, timestamp)]
           /\ hist' = HistAfterUpdate(session_manager, telemetry, timestamp,
                                      r.events)
           /\ UNCHANGED <<_min_speed_kmh, running, paused, suspend_logging, opponent_tracker>>

NextStop == SMUpdate(TeleportTimes, TeleportSamples)

SpecStop == InitStop /\ [][NextStop]_vars

NextIdle == SMUpdate(Times, IdleSamples)

SpecIdle == InitStop /\ [][NextIdle]_vars

---------------------------------------------------------------------------
(* SessionManager.update called with lap numbers that rise and fall *)

LapTimes == {0, 10}
LapSamples ==
    {[NoTelemetry EXCEPT !.lap = l, !.lap_distance = d] :
        l \in 0..MaxLap, d \in Optional({100})}

NextLap == SMUpdate(LapTimes, LapSamples)

SpecLap == InitStop /\ [][NextLap]_vars

---------------------------------------------------------------------------
(* SessionManager.update, add_sample and clear_lap_buffer called on their   *)
(* own, with timestamps in any order                                        *)

BufTimes == {0, 3, 10}
ReportedLapTimes == {None, Some(-100), Some(700)}
BufUpdateSamples == {[NoTelemetry EXCEPT !.lap = l] : l \in 0..MaxLap}
BufSamples ==
    {[NoTelemetry EXCEPT !.lap_distance = Some(100), !.lap_time = lt] :
        lt \in ReportedLapTimes}

DupTimes == {0, 3}
DupDistances == {100, 200}
DupThrottles == {None, Some(50)}
DupSamples ==
    {[NoTelemetry EXCEPT !.lap_distance = Some(d), !.throttle = th] :
        d \in DupDistances, th \in DupThrottles}

InitBuf ==
    /\ session_manager = SessionManagerInit(IdleTimeoutDefault, MinSpeedDefault,
                                            LapResetToleranceDefault)
    /\ LoopIdle
    /\ now = 0
    /\ op = [name |-> "init"]
    /\ hist = HistInit

BufUpdate ==
    \E telemetry \in BufUpdateSamples, timestamp \in Optional(BufTimes) :
        LET r == update(session_manager, telemetry, timestamp)
            new_lap == telemetry.lap # session_manager.current_lap
        IN /\ session_manager' = r.sm
           /\ op' = [name |-> "update", telemetry |-> telemetry,
                     timestamp |-> timestamp, events |-> r.events,
                     prev_lap |-> session_manager.current_lap]
           /\ hist' = IF new_lap
                      THEN [hist EXCEPT
                              !.seg_start = Len(session_manager.lap_samples),
                              !.prev_assigned = None]
                      ELSE hist
           /\ UNCHANGED <<_min_speed_kmh, running, paused, suspend_logging, opponent_tracker, now>>

\* The record add_sample compares with the buffer's last entry.
Normalized(sm, telemetry, timestamp) ==
    LET t1 == IF ~telemetry.track_length_present /\ sm.track_length > 0
              THEN [telemetry EXCEPT !.track_length = Some(sm.track_length),
                                     !.track_length_present = TRUE]
              ELSE telemetry
    IN assign_lap_time(sm, normalize(t1), timestamp).normalized

BufAddSample(samples, times) ==
    \E telemetry \in samples, timestamp \in Optional(times) :
        LET sm == add_sample(session_manager, telemetry, timestamp)
        IN /\ Len(sm.lap_samples) <= MaxSamples
           /\ session_manager' = sm
           /\ op' = [name |-> "add_sample", timestamp |-> timestamp,
                     reported |-> telemetry.lap_time,
                     prev_assigned |-> hist.prev_assigned,
                     prev_len |-> Len(session_manager.lap_samples),
                     prev_last |->
                         IF session_manager.lap_samples = << >> THEN None
                         ELSE Some(session_manager.lap_samples[
                                       Len(session_manager.lap_samples)]),
                     normalized |->
                         Normalized(session_manager, telemetry, timestamp)]
           /\ hist' = [hist EXCEPT !.prev_assigned = Some(sm.last_lap_time)]
           /\ UNCHANGED <<_min_speed_kmh, running, paused, suspend_logging, opponent_tracker, now>>

BufClear ==
    /\ session_manager' = clear_lap_buffer(session_manager)
    /\ op' = [name |-> "clear_lap_buffer"]
    /\ hist' = [hist EXCEPT !.seg_start = 0, !.prev_assigned = None]
    /\ UNCHANGED <<_min_speed_kmh, running, paused, suspend_logging, opponent_tracker, now>>

NextBuf == BufUpdate \/ BufAddSample(BufSamples, BufTimes) \/ BufClear

SpecBuf == InitBuf /\ [][NextBuf]_vars

NextDup == BufAddSample(DupSamples, DupTimes) \/ BufClear

SpecDup == InitBuf /\ [][NextDup]_vars

---------------------------------------------------------------------------
(* The lap summary of the buffer, asked for after any call *)

\* Reported lap times in 0.01 s: 1.0 s and 75.43 s, or none.
SummarySamples ==
    {[NoTelemetry EXCEPT !.lap_distance = Some(d), !.lap_time = lt] :
        d \in {100, 3000}, lt \in Optional({100, 7543})}
SummaryTimes == {0, 3}

GetLapSummary ==
    /\ op.name # "get_lap_summary"
    /\ op' = [name |-> "get_lap_summary",
              summary |-> get_lap_summary(session_manager),
              after |-> op]
    /\ UNCHANGED <<_min_speed_kmh, session_manager, running, paused, suspend_logging,
                   opponent_tracker, now, hist>>

NextSummary ==
    BufAddSample(SummarySamples, SummaryTimes) \/ BufClear \/ GetLapSummary

SpecSummary == InitBuf /\ [][NextSummary]_vars

---------------------------------------------------------------------------
(* The normalizer alone: a raw sample is drawn, normalize is called on it *)

\* Lap distances around the boundaries, in 0.1 m.
NormDistances == {-10, 0, 9990, 10000, 10010, 19990, 20000, 25000, 30000, 35000}
BoundaryLists ==
    {<< >>, <<10000>>, <<10000, 20000>>, <<10000, 20000, 30000>>,
     <<8000, 16000, 24000, 30000>>}
\* Samples that vary in what the sector is resolved from.
SectorSamples ==
    {[NoTelemetry EXCEPT !.lap_distance = d, !.sector = sector,
                         !.sector_boundaries = b, !.track_length = l.value,
                         !.track_length_present = l.present] :
        d \in Optional(NormDistances),
        sector \in Optional(-1..5 \cup {FloatInfinity}),
        b \in BoundaryLists, l \in TrackLengthEntries({0, 30000})}
\* Pedal, steering and gear values: ratios (100 is 1.0), percentages and
\* values far outside of both, of either sign.
ChannelValues ==
    {-FloatInfinity, -20000, -10000, -201, -200, -151, -150, -50, 0, 50, 150,
     151, 200, 201, 5000, 10000, 20000, FloatInfinity}
ChannelSamples ==
    {[NoTelemetry EXCEPT !.throttle = throttle, !.steering = steering,
                         !.gear = gear] :
        throttle \in Optional(ChannelValues),
        steering \in Optional(ChannelValues),
        gear \in Optional({-1, 0, 6, FloatInfinity, -FloatInfinity})}
    \cup {[NoTelemetry EXCEPT !.brake = brake, !.speed = speed, !.rpm = rpm,
                              !.position_x = x, !.position_z = z] :
        brake \in Optional(ChannelValues), speed \in Optional({-10, 250}),
        rpm \in Optional({7000}), x \in Optional({-1230}),
        z \in Optional({4560})}

InitNorm ==
    /\ session_manager = SessionManagerInit(IdleTimeoutDefault, MinSpeedDefault,
                                            LapResetToleranceDefault)
    /\ LoopIdle
    /\ now = 0
    /\ \E telemetry \in SectorSamples \cup ChannelSamples :
           op = [name |-> "raw", telemetry |-> telemetry]
    /\ hist = HistInit

Normalize ==
    /\ op.name = "raw"
    /\ op' = [name |-> "normalize", telemetry |-> op.telemetry,
              raised |-> normalize_raises(op.telemetry),
              normalized |-> IF normalize_raises(op.telemetry) THEN None
                             ELSE Some(normalize(op.telemetry))]
    /\ UNCHANGED <<_min_speed_kmh, session_manager, running, paused, suspend_logging,
                   opponent_tracker, now, hist>>

NextNorm == Normalize

SpecNorm == InitNorm /\ [][NextNorm]_vars

---------------------------------------------------------------------------
(* The sector boundary detector alone: the samples of a lap and a track    *)
(* length are drawn, detect_sector_boundaries is called on them            *)

MaxLapSamples == 3
\* Track lengths in 0.1 m: unknown, and a length whose thirds are whole.
TrackLengths == {0, 5400}
\* Samples before, between and after the splits; the third split time is
\* set after the first two only. A split time set earlier may read 0.
SplitSamples ==
    {[lap_distance |-> d, sector1_time |-> s1, sector2_time |-> s2,
      sector3_time |-> s3] :
        d \in {1000, 3000, 5200}, s1 \in {0, 3520}, s2 \in {0, 6850},
        s3 \in {0, 9000}}
    \ {x \in [lap_distance : {1000, 3000, 5200}, sector1_time : {0, 3520},
               sector2_time : {0, 6850}, sector3_time : {9000}] :
           x.sector1_time = 0 \/ x.sector2_time = 0}
SeqsUpTo(S, n) == UNION {[1..m -> S] : m \in 0..n}

InitSectors ==
    /\ session_manager = SessionManagerInit(IdleTimeoutDefault, MinSpeedDefault,
                                            LapResetToleranceDefault)
    /\ LoopIdle
    /\ now = 0
    /\ \E samples \in SeqsUpTo(SplitSamples, MaxLapSamples),
          track_length \in TrackLengths :
           op = [name |-> "lap", samples |-> samples,
                 track_length |-> track_length]
    /\ hist = HistInit

DetectSectors ==
    /\ op.name = "lap"
    /\ \E r \in {detect_sector_boundaries(op.samples, op.track_length)} :
           op' = [name |-> "detect_sector_boundaries", samples |-> op.samples,
                  track_length |-> op.track_length,
                  boundaries |-> r.boundaries, num_sectors |-> r.num_sectors]
    /\ UNCHANGED <<_min_speed_kmh, session_manager, running, paused, suspend_logging,
                   opponent_tracker, now, hist>>

NextSectors == DetectSectors

SpecSectors == InitSectors /\ [][NextSectors]_vars

---------------------------------------------------------------------------
(* The polling loop: ticks and control calls *)

LoopTimes == {0, IdleTimeoutDefault + 10}
LoopDistances == {100, 5000}
LoopSamples ==
    {[NoTelemetry EXCEPT !.lap = l, !.lap_distance = Some(d),
                         !.speed = Some(s)] :
        l \in 1..MaxLap, d \in LoopDistances, s \in Speeds}
\* A car rolling backwards, and a reading whose gear is float('inf').
ReverseSpeed == -3
ReverseSample ==
    [NoTelemetry EXCEPT !.lap = 1, !.lap_distance = Some(100),
                        !.speed = Some(ReverseSpeed)]
NotFiniteSample ==
    [NoTelemetry EXCEPT !.lap = 1, !.lap_distance = Some(5000),
                        !.speed = Some(50), !.gear = Some(FloatInfinity)]
Readings == Optional(LoopSamples \cup {ReverseSample, NotFiniteSample})

\* The configured minimum speed: the default, and a negative value, which
\* the loop keeps as given and the SessionManager clamps to 0.
MinSpeedConfigs == {-5, MinSpeedDefault}

\* lines 37-54: TelemetryLoop(config) with the configured minimum speed
TelemetryLoopInit(min_speed) ==
    /\ session_manager = SessionManagerInit(IdleTimeoutDefault, min_speed,
                                            LapResetToleranceDefault)
    /\ _min_speed_kmh = min_speed
    /\ running = FALSE
    /\ paused = FALSE
    /\ suspend_logging = FALSE
    /\ opponent_tracker = OpponentTrackerInit(TRUE, FALSE)

InitLoop ==
    /\ TelemetryLoopInit(MinSpeedDefault)
    /\ now = 0
    /\ op = [name |-> "init"]
    /\ hist = HistInit

InitConfigured ==
    /\ \E min_speed \in MinSpeedConfigs : TelemetryLoopInit(min_speed)
    /\ now = 0
    /\ op = [name |-> "init"]
    /\ hist = HistInit

\* Which buffered samples the callback has been given, after a tick.
HandedOver(r) ==
    LET kept == IF r.cleared THEN << >>
                ELSE IF r.calls # << >>
                THEN [i \in 1..Len(hist.handed_over) |-> TRUE]
                ELSE hist.handed_over
    IN [i \in 1..Len(r.sm.lap_samples) |->
           IF i <= Len(kept) THEN kept[i] ELSE FALSE]

Start ==
    /\ running' = TRUE
    /\ paused' = FALSE
    /\ op' = [name |-> "start"]
    /\ UNCHANGED <<_min_speed_kmh, session_manager, suspend_logging, opponent_tracker, now, hist>>

RunOnce ==
    \E t \in LoopTimes, process_running \in BOOLEAN, available \in BOOLEAN,
       reading \in Readings, callback_raises \in BOOLEAN :
        /\ running
        /\ t >= now
        \* what a tick does not consult is left at one value
        /\ ~process_running => ~available
        /\ ~available => reading = None
        /\ callback_raises => reading # None
        /\ \E r \in {run_once(session_manager, _min_speed_kmh, paused,
                              suspend_logging,
                              Some(process_running), Some(available),
                              reading, callback_raises, t)} :
              /\ Len(r.sm.lap_samples) <= MaxSamples
              /\ now' = t
              /\ session_manager' = r.sm
              /\ suspend_logging' = r.suspend
              /\ op' = [name |-> "run_once", status |-> Some(r.status),
                        calls |-> r.calls, read |-> r.read,
                        prev_lap |-> session_manager.current_lap,
                        prev_len |-> Len(session_manager.lap_samples)]
              /\ hist' = [hist EXCEPT
                            !.handed_over = HandedOver(r),
                            !.handed_twice =
                                @ \/ (r.calls # << >>
                                      /\ \E i \in 1..Len(hist.handed_over) :
                                             hist.handed_over[i])]
              /\ UNCHANGED <<_min_speed_kmh, running, paused, opponent_tracker>>

NextLoop == Start \/ RunOnce

SpecLoop == InitConfigured /\ [][NextLoop]_vars

---------------------------------------------------------------------------
(* The polling loop under its control calls, with collaborators that may     *)
(* fail: the process check and the availability check return a boolean or    *)
(* raise, read() returns a sample or raises, the callback returns or raises. *)
(* Opponents the reader could list (get_all_vehicles) are an input of the    *)
(* tick as well.                                                             *)

MaxBuffered == 2
Checks == Optional(BOOLEAN)
\* The local car on its first and second lap, near the line and far round
\* the track, standing and driving.
CtlSamples ==
    {[NoTelemetry EXCEPT !.lap = l, !.lap_distance = Some(d),
                         !.speed = Some(s)] :
        l \in {1, 2}, d \in LoopDistances, s \in Speeds}
CtlReadings == Optional(CtlSamples)
NoOpponents == << >>

Stop ==
    /\ running
    /\ running' = FALSE
    /\ op' = [name |-> "stop", prev_state |-> session_manager.state]
    /\ UNCHANGED <<_min_speed_kmh, session_manager, paused, suspend_logging, opponent_tracker,
                   now, hist>>

StartLoop ==
    /\ running' = TRUE
    /\ paused' = FALSE
    /\ op' = [name |-> "start", prev_state |-> session_manager.state]
    /\ UNCHANGED <<_min_speed_kmh, session_manager, suspend_logging, opponent_tracker, now, hist>>

Pause ==
    /\ paused' = TRUE
    /\ session_manager' = pause(session_manager)
    /\ op' = [name |-> "pause", prev_state |-> session_manager.state]
    /\ UNCHANGED <<_min_speed_kmh, running, suspend_logging, opponent_tracker, now, hist>>

Resume ==
    /\ paused' = FALSE
    /\ session_manager' = resume(session_manager)
    /\ op' = [name |-> "resume", prev_state |-> session_manager.state]
    /\ UNCHANGED <<_min_speed_kmh, running, suspend_logging, opponent_tracker, now, hist>>

\* lines 97-98
RunOnceStopped ==
    /\ ~running
    /\ op' = [name |-> "run_once_stopped", prev_state |-> session_manager.state]
    /\ UNCHANGED <<_min_speed_kmh, session_manager, running, paused, suspend_logging,
                   opponent_tracker, now, hist>>

\* What a tick gave to the callback: the flags of each lap summary.
Flags(calls) ==
    [i \in 1..Len(calls) |->
        [lap_completed |-> calls[i].lap_summary.lap_completed,
         stop_reason |-> calls[i].lap_summary.stop_reason]]

TickOn(readings, vehicles) ==
    \E t \in LoopTimes, process_check \in Checks, availability_check \in Checks,
       reading \in readings, callback_raises \in BOOLEAN, visible \in vehicles :
        /\ running
        /\ t >= now
        \* what a tick does not consult is left at one value
        /\ (process_check # Some(TRUE) \/ paused)
               => availability_check = Some(FALSE)
        /\ availability_check # Some(TRUE)
               => reading = None /\ visible = NoOpponents /\ t = now
        /\ callback_raises => reading # None
        /\ \E r \in {run_once(session_manager, _min_speed_kmh, paused,
                              suspend_logging,
                              process_check, availability_check,
                              reading, callback_raises, t)} :
              /\ Len(r.sm.lap_samples) <= MaxBuffered
              /\ now' = t
              /\ session_manager' = r.sm
              /\ suspend_logging' = r.suspend
              /\ op' = [name |-> "tick",
                        prev_state |-> session_manager.state,
                        process_check |-> process_check,
                        availability_check |-> availability_check,
                        was_paused |-> paused,
                        was_suspended |-> suspend_logging,
                        speed |-> IF reading = None THEN None
                                  ELSE Val(reading).speed,
                        read_raised |-> r.read /\ reading = None,
                        read |-> r.read,
                        raised |-> r.raised,
                        status_state |-> r.status.state,
                        status_lap |-> r.status.lap,
                        samples_buffered |-> r.status.samples_buffered,
                        telemetry_available |-> r.status.telemetry_available,
                        prev_lap |-> session_manager.current_lap,
                        status_error |-> r.status.error,
                        stop_reason |-> r.status.stop_reason,
                        delivered |-> Flags(r.calls),
                        flushes |-> [i \in 1..Len(r.flushes) |->
                                       [cause |-> r.flushes[i].cause,
                                        delivered |-> Flags(r.flushes[i].calls),
                                        buffer_after |->
                                            r.flushes[i].buffer_after]],
                        buffer_kept |->
                            r.sm.lap_samples = session_manager.lap_samples,
                        appended |->
                            r.sm.lap_samples #
                                (IF r.cleared THEN << >>
                                 ELSE session_manager.lap_samples),
                        visible |-> visible]
              /\ UNCHANGED <<_min_speed_kmh, running, paused, opponent_tracker, hist>>

Tick == TickOn(CtlReadings, {NoOpponents})

NextCtl == StartLoop \/ Stop \/ Pause \/ Resume \/ RunOnceStopped \/ Tick

SpecCtl == InitLoop /\ [][NextCtl]_vars

---------------------------------------------------------------------------
(* Two threads: the polling thread inside run_once, one statement that     *)
(* reads or writes the session state or a flag at a time, and the          *)
(* presentation thread inside pause() and resume(). read() and the         *)
(* callback return here; the normalizer raises on a value that is not      *)
(* finite.                                                                 *)

\* One step of run_once from position pc; the result is the next position
\* ("rest" when run_once has returned) and what the step assigned.
poll_step(pc, sm, min_speed_kmh, is_paused, suspend, process_running, available, reading, telemetry, current_time) ==
    LET at(next, sm1, suspend1, telemetry1) ==
            [pc |-> next, sm |-> sm1, suspend |-> suspend1,
             telemetry |-> telemetry1, appended |-> FALSE]
        u == update(sm, reading, Some(current_time))
        f1 == IF u.events.lap_completed THEN flush_lap(u.sm, "none", FALSE).sm
              ELSE u.sm
        stop_reason == u.events.session_stopped
        f2 == IF stop_reason # "none" THEN flush_lap(f1, stop_reason, FALSE).sm
              ELSE f1
    IN CASE pc = "rest" ->                                    \* lines 114-117
                at(IF process_running THEN "detect_test" ELSE "absent_test",
                   sm, suspend, None)
         [] pc = "absent_test" ->                             \* line 119
                IF sm.state # "idle" THEN at("absent_write", sm, suspend, None)
                ELSE at("rest", sm, FALSE, None)
         [] pc = "absent_write" ->                            \* lines 120-123
                at("rest", clear_lap_buffer([sm EXCEPT !.state = "idle"]),
                   FALSE, None)
         [] pc = "detect_test" ->                             \* line 126
                at(IF sm.state = "idle" THEN "detect_write" ELSE "paused_test",
                   sm, suspend, None)
         [] pc = "detect_write" ->                            \* line 127
                at("paused_test", [sm EXCEPT !.state = "detected"], suspend,
                   None)
         [] pc = "paused_test" ->                             \* lines 130-137
                IF is_paused THEN at("rest", sm, suspend, None)
                ELSE IF ~available THEN at("rest", sm, FALSE, None)
                ELSE at("read", sm, suspend, None)
         [] pc = "read" ->                                    \* lines 143-158
                at(IF stop_reason # "none" THEN "stop_test" ELSE "suspend_test",
                   f2, IF stop_reason # "none" THEN TRUE ELSE suspend,
                   Some(reading))
         [] pc = "stop_test" ->                               \* line 159
                at(IF sm.state = "logging" THEN "stop_write" ELSE "suspend_test",
                   sm, suspend, telemetry)
         [] pc = "stop_write" ->                              \* line 160
                at("suspend_test", [sm EXCEPT !.state = "detected"], suspend,
                   telemetry)
         [] pc = "suspend_test" ->                            \* lines 162-169
                IF ~suspend THEN at("log_test", sm, suspend, telemetry)
                ELSE IF sample_indicates_active(Val(telemetry), min_speed_kmh)
                THEN at("log_test", sm, FALSE, telemetry)
                ELSE at("rest", sm, suspend, None)
         [] pc = "log_test" ->                                \* line 171
                at(IF sm.state = "detected" THEN "log_write" ELSE "add_sample",
                   sm, suspend, telemetry)
         [] pc = "log_write" ->                               \* lines 172-173
                at("add_sample",
                   [sm EXCEPT !.state = "logging",
                              !.current_session_id =
                                  generate_session_id(current_time)],
                   suspend, telemetry)
         [] OTHER ->                                          \* lines 176-188
                IF normalize_raises(Val(telemetry))
                THEN [pc |-> "rest", sm |-> [sm EXCEPT !.state = "error"],
                      suspend |-> suspend, telemetry |-> None,
                      appended |-> FALSE]
                ELSE [pc |-> "rest", sm |-> add_sample(sm, Val(telemetry), None),
                      suspend |-> suspend, telemetry |-> None,
                      appended |-> TRUE]

\* The loop has been started; both threads are between calls.
InitRace ==
    /\ \E min_speed \in MinSpeedConfigs :
          /\ session_manager = SessionManagerInit(IdleTimeoutDefault, min_speed,
                                                  LapResetToleranceDefault)
          /\ _min_speed_kmh = min_speed
    /\ running = TRUE
    /\ paused = FALSE
    /\ suspend_logging = FALSE
    /\ opponent_tracker = OpponentTrackerInit(TRUE, FALSE)
    /\ now = 0
    /\ op = [name |-> "threads", pc |-> "rest", ui |-> "rest",
             telemetry |-> None,
             since_pause |-> "no",      \* no | tick_in_progress | settled
             appended_after |-> FALSE]  \* a sample was appended while settled
    /\ hist = HistInit

PollStep ==
    \E t \in LoopTimes, process_running \in BOOLEAN, available \in BOOLEAN,
       reading \in CtlSamples \cup {ReverseSample, NotFiniteSample} :
        \* what a step does not consult is left at one value
        /\ (op.pc = "rest" /\ t >= now) \/ (op.pc # "rest" /\ t = now)
        /\ (op.pc # "rest") => process_running
        /\ (op.pc # "paused_test") => available
        /\ (op.pc # "read") =>
               (reading = [NoTelemetry EXCEPT !.lap = 1,
                                              !.lap_distance = Some(100),
                                              !.speed = Some(0)])
        /\ \E r \in {poll_step(op.pc, session_manager, _min_speed_kmh, paused,
                                suspend_logging,
                                process_running, available, reading,
                                op.telemetry, t)} :
              /\ Len(r.sm.lap_samples) <= MaxBuffered
              /\ now' = t
              /\ session_manager' = r.sm
              /\ suspend_logging' = r.suspend
              /\ op' = [op EXCEPT
                          !.pc = r.pc,
                          !.telemetry = r.telemetry,
                          !.since_pause =
                              IF r.pc = "rest" /\ @ = "tick_in_progress"
                              THEN "settled" ELSE @,
                          !.appended_after =
                              @ \/ (r.appended /\ op.since_pause = "settled")]
              /\ UNCHANGED <<_min_speed_kmh, running, paused, opponent_tracker, hist>>

\* line 67
PauseFlag ==
    /\ op.ui = "rest"
    /\ paused' = TRUE
    /\ op' = [op EXCEPT !.ui = "pause_state"]
    /\ UNCHANGED <<_min_speed_kmh, session_manager, running, suspend_logging, opponent_tracker,
                   now, hist>>

\* line 68, after which pause() returns
PauseState ==
    /\ op.ui = "pause_state"
    /\ session_manager' = pause(session_manager)
    /\ op' = [op EXCEPT !.ui = "rest",
                        !.since_pause = IF op.pc = "rest" THEN "settled"
                                        ELSE "tick_in_progress",
                        !.appended_after = FALSE]
    /\ UNCHANGED <<_min_speed_kmh, running, paused, suspend_logging, opponent_tracker, now, hist>>

\* line 72
ResumeFlag ==
    /\ op.ui = "rest"
    /\ paused' = FALSE
    /\ op' = [op EXCEPT !.ui = "resume_state", !.since_pause = "no",
                        !.appended_after = FALSE]
    /\ UNCHANGED <<_min_speed_kmh, session_manager, running, suspend_logging, opponent_tracker,
                   now, hist>>

\* line 73: the test of the session state; resume() returns when the state
\* is not PAUSED
ResumeTest ==
    /\ op.ui = "resume_state"
    /\ op' = [op EXCEPT !.ui = IF session_manager.state = "paused"
                                THEN "resume_write" ELSE "rest"]
    /\ UNCHANGED <<_min_speed_kmh, session_manager, running, paused, suspend_logging,
                   opponent_tracker, now, hist>>

\* line 74, after which resume() returns: the write follows the test of
\* line 73 whatever the polling thread has written in between
ResumeWrite ==
    /\ op.ui = "resume_write"
    /\ session_manager' = [session_manager EXCEPT !.state = "logging"]
    /\ op' = [op EXCEPT !.ui = "rest"]
    /\ UNCHANGED <<_min_speed_kmh, running, paused, suspend_logging, opponent_tracker, now, hist>>

NextRace ==
    PollStep \/ PauseFlag \/ PauseState \/ ResumeFlag \/ ResumeTest \/ ResumeWrite

SpecRace == InitRace /\ [][NextRace]_vars

---------------------------------------------------------------------------
(* update() fed samples with and without an explicit track length *)

TrackSamples ==
    {[NoTelemetry EXCEPT !.lap = 1, !.speed = Some(50),
                         !.track_length = tl.value,
                         !.track_length_present = tl.present,
                         !.lap_distance = ld] :
        tl \in TrackLengthEntries({-5400, 0, 5000, 5400}),
        ld \in Optional({-100, 0, 100, 5200, 5450})}

\* The largest positive value among the ones given.
PositiveMax(values) ==
    LET positive == {Val(v) : v \in {x \in values : x # None}} \cap (1..6000)
    IN IF positive = {} THEN 0
       ELSE CHOOSE m \in positive : \A x \in positive : x <= m

InitTrack ==
    /\ session_manager = SessionManagerInit(IdleTimeoutDefault, MinSpeedDefault,
                                            LapResetToleranceDefault)
    /\ running = FALSE
    /\ _min_speed_kmh = MinSpeedDefault
    /\ paused = FALSE
    /\ suspend_logging = FALSE
    /\ opponent_tracker = OpponentTrackerInit(TRUE, FALSE)
    /\ now = 0
    /\ op = [name |-> "init", seen_max |-> 0]
    /\ hist = HistInit

UpdateTrack ==
    \E telemetry \in TrackSamples :
        /\ session_manager' = update(session_manager, telemetry, None).sm
        /\ op' = [name |-> "update", telemetry |-> telemetry,
                  prev_track_length |-> session_manager.track_length,
                  \* the largest positive track length and lap distance fed
                  seen_max |-> PositiveMax({Some(op.seen_max),
                                            telemetry.track_length,
                                            telemetry.lap_distance})]
        /\ UNCHANGED <<_min_speed_kmh, running, paused, suspend_logging, opponent_tracker,
                       now, hist>>

\* Samples for add_sample: the track length missing, present without a
\* number, and present.
TrackAddSamples ==
    {[NoTelemetry EXCEPT !.lap = 1, !.lap_distance = Some(ld),
                         !.track_length = tl.value,
                         !.track_length_present = tl.present] :
        ld \in {2000, 3000}, tl \in TrackLengthEntries({5000})}

TrackAddSample ==
    \E telemetry \in TrackAddSamples :
        \E sm \in {add_sample(session_manager, telemetry, None)} :
            /\ Len(sm.lap_samples) <= MaxBuffered
            /\ session_manager' = sm
            /\ op' = [name |-> "add_sample", telemetry |-> telemetry,
                      prev_track_length |-> session_manager.track_length,
                      seen_max |-> op.seen_max]
            /\ UNCHANGED <<_min_speed_kmh, running, paused, suspend_logging, opponent_tracker,
                           now, hist>>

NextTrack == UpdateTrack \/ TrackAddSample

SpecTrack == InitTrack /\ [][NextTrack]_vars

---------------------------------------------------------------------------
(* run(): the polling loop on its thread, stop() on another one            *)

\* A loop whose run_once does not look at the running flag.
run_loop_step_unchecked(pc, is_running) ==
    CASE pc = "while_test" -> IF is_running THEN "run_once" ELSE "returned"
      [] pc = "run_once" -> "tick"
      [] pc = "tick" -> "sleep"
      [] OTHER -> "while_test"

\* Where the loop goes next: from the test of line 199 into run_once or out
\* of run(), from the test of line 97 into the tick or back with None, from
\* the tick to the sleep of line 201 and from there to the next test.
run_loop_step(pc, is_running) ==
    CASE pc = "while_test" -> IF is_running THEN "run_once" ELSE "returned"
      [] pc = "run_once" -> IF is_running THEN "tick" ELSE "sleep"
      [] pc = "tick" -> "sleep"
      [] OTHER -> "while_test"

RunSamples ==
    {[NoTelemetry EXCEPT !.lap = l, !.lap_distance = Some(d),
                         !.speed = Some(50)] : l \in {1, 2}, d \in {100, 200}}

\* run() has called start() and stands before the first test of the flag.
InitRun ==
    /\ session_manager = SessionManagerInit(IdleTimeoutDefault, MinSpeedDefault,
                                            LapResetToleranceDefault)
    /\ running = TRUE
    /\ _min_speed_kmh = MinSpeedDefault
    /\ paused = FALSE
    /\ suspend_logging = FALSE
    /\ opponent_tracker = OpponentTrackerInit(TRUE, FALSE)
    /\ now = 0
    /\ op = [name |-> "run", pc |-> "while_test",
             stopped |-> FALSE,            \* stop() has been called
             status |-> None,              \* what the latest run_once returned
             ticks_after_stop |-> FALSE,   \* a tick began after stop()
             changed_when_stopped |-> FALSE]
    /\ hist = HistInit

RunStep ==
    /\ op.pc # "returned"
    /\ \E process_running \in BOOLEAN, reading \in RunSamples :
          /\ (op.pc # "tick") =>
                 (process_running /\ reading = CHOOSE x \in RunSamples : TRUE)
          /\ \E next \in {run_loop_step(op.pc, running)},
                r \in {IF op.pc = "tick"
                       THEN run_once(session_manager, _min_speed_kmh, paused,
                                     suspend_logging,
                                     Some(process_running), Some(TRUE),
                                     Some(reading), FALSE, now)
                       ELSE [sm |-> session_manager, suspend |-> suspend_logging,
                             status |-> None]} :
               /\ Len(r.sm.lap_samples) <= MaxBuffered
               /\ session_manager' = r.sm
               /\ suspend_logging' = r.suspend
               /\ op' = [op EXCEPT
                           !.pc = next,
                           !.status = IF op.pc = "tick" THEN Some(r.status)
                                      ELSE IF op.pc = "run_once" THEN None
                                      ELSE @,
                           !.ticks_after_stop =
                               @ \/ (next = "tick" /\ op.stopped),
                           !.changed_when_stopped =
                               @ \/ (/\ op.pc = "run_once" /\ ~running
                                     /\ <<r.sm, r.suspend>> #
                                            <<session_manager, suspend_logging>>)]
    /\ UNCHANGED <<_min_speed_kmh, running, paused, opponent_tracker, now, hist>>

\* line 63, from another thread
StopRun ==
    /\ running
    /\ running' = FALSE
    /\ op' = [op EXCEPT !.stopped = TRUE]
    /\ UNCHANGED <<_min_speed_kmh, session_manager, paused, suspend_logging, opponent_tracker,
                   now, hist>>

NextRun == RunStep \/ StopRun

SpecRun == InitRun /\ [][NextRun]_vars

\* The polling thread keeps running.
SpecRunFair == SpecRun /\ WF_vars(RunStep)

---------------------------------------------------------------------------
(* The opponent tracker fed one opponent sample per call, without timestamp *)

MaxOpponentSamples == 2
MaxOpponentLap == 6
\* The in-progress lap timer of an opponent sample (0.5 s into the lap), and
\* the last lap time of a car that has no completed lap (-1.0 s).
TimeIntoLap == 50
NoLastLapTime == -100
\* Control types (line 145): the first driver plays remotely, the second one
\* is an AI car, and the vehicle of the local player has no driver to track.
ControlOf(d) == IF d = "alice" THEN 2 ELSE IF d = "bob" THEN 1 ELSE 0
\* The first driver drives the laps of CompletedTimes in their order, some of
\* them without a valid time; the second one drives beside it with lap times
\* of its own choice.
LapsOf(d) == IF d = "alice" THEN 0..MaxOpponentLap ELSE 0..MaxLap
NextCompletedTime ==
    IF hist.script["alice"] \in 0..(Len(CompletedTimes) - 1)
    THEN {CompletedTimes[hist.script["alice"] + 1]} ELSE {}
LastLapTimesOf(d) ==
    IF d = "alice" THEN {0} \cup NextCompletedTime
    ELSE {NoLastLapTime, 0, CompletedTimes[3], CompletedTimes[1],
          CompletedTimes[2]}
\* Control types the tracker never follows: nobody, local player, replay.
ExcludedControls == {-1, 0, 3}
\* The samples of the drivers under their own control type, and under the
\* control types of excluded with a first valid lap time; a vehicle without
\* a driver name.
OpponentSamples(excluded) ==
    {[NoOpponentTelemetry EXCEPT !.driver_name = d, !.control = ControlOf(d),
                                 !.lap = l, !.last_lap_time = t,
                                 !.lap_time = TimeIntoLap] :
        d \in Drivers, l \in 0..MaxOpponentLap,
        t \in {NoLastLapTime, 0}
                \cup {CompletedTimes[i] : i \in DOMAIN CompletedTimes}}
    \cup {[NoOpponentTelemetry EXCEPT !.driver_name = d, !.control = c,
                                      !.lap = l,
                                      !.last_lap_time = CompletedTimes[1],
                                      !.lap_time = TimeIntoLap] :
             d \in Drivers, c \in excluded, l \in 0..MaxOpponentLap}
    \cup {NoOpponentTelemetry}
    \cup (IF excluded = {} THEN {}
          ELSE {[NoOpponentTelemetry EXCEPT !.control = 2, !.lap = 1]})

InitOpp ==
    /\ session_manager = SessionManagerInit(IdleTimeoutDefault, MinSpeedDefault,
                                            LapResetToleranceDefault)
    /\ running = FALSE
    /\ _min_speed_kmh = MinSpeedDefault
    /\ paused = FALSE
    /\ suspend_logging = FALSE
    /\ \E track_ai \in BOOLEAN :
           opponent_tracker = OpponentTrackerInit(TRUE, track_ai)
    /\ now = 0
    /\ op = [name |-> "init"]
    /\ hist = HistInit

Tracked(tracker, telemetry) ==
    telemetry.driver_name # "" /\ should_track(telemetry.control, tracker.track_ai)

OpponentLap(tracker, driver_name) ==
    IF driver_name \in DOMAIN tracker.opponents
    THEN tracker.opponents[driver_name].current_lap ELSE 0

\* The number of samples the tracker holds.
RECURSIVE BufferedOf(_, _)
BufferedOf(tracker, names) ==
    IF names = {} THEN 0
    ELSE LET n == CHOOSE x \in names : TRUE
         IN Len(tracker.opponents[n].samples) + BufferedOf(tracker, names \ {n})

Buffered(tracker) == BufferedOf(tracker, DOMAIN tracker.opponents)

\* The call raises the lap number of a tracked driver that was on a lap.
IncreasesLap(tracker, telemetry) ==
    /\ Tracked(tracker, telemetry)
    /\ OpponentLap(tracker, telemetry.driver_name) > 0
    /\ telemetry.lap > OpponentLap(tracker, telemetry.driver_name)

\* The same, with a positive last lap time.
CompletesLap(tracker, telemetry) ==
    IncreasesLap(tracker, telemetry) /\ telemetry.last_lap_time > 0

\* What is kept of a lap record the call returned.
Emitted(lap_data) ==
    [driver_name |-> lap_data.driver_name, lap_number |-> lap_data.lap_number,
     lap_time |-> lap_data.lap_time, n_samples |-> Len(lap_data.samples),
     is_fastest |-> lap_data.is_fastest,
     samples_as_buffered |->
         lap_data.samples =
             opponent_tracker.opponents[lap_data.driver_name].samples]

\* The fastest lap time the tracker holds for a driver.
FastestOf(tracker, driver_name) ==
    IF driver_name \in DOMAIN tracker.opponents
    THEN tracker.opponents[driver_name].fastest_lap_time ELSE Infinity

\* Some record of the call is not faster than the driver's latest one.
NotFaster(d, completed) ==
    \E i \in 1..Len(completed) :
        \/ i > 1 /\ completed[i].lap_time >= completed[i - 1].lap_time
        \/ i = 1 /\ hist.last_emitted[d] # None
                 /\ completed[i].lap_time >= Val(hist.last_emitted[d])

HistAfterOpponent(telemetry, completed) ==
    LET d == telemetry.driver_name
        t == telemetry.last_lap_time
        k == hist.script[d]
        follows == k >= 0 /\ k < Len(CompletedTimes) /\ CompletedTimes[k + 1] = t
        times == [i \in 1..Len(completed) |-> completed[i].lap_time]
        h == [hist EXCEPT
                 !.followed =
                     IF \/ telemetry.control = 2
                        \/ telemetry.control = 1 /\ opponent_tracker.track_ai
                     THEN @ \cup {d} ELSE @,
                 !.emitted_slower = @ \/ NotFaster(d, completed),
                 !.last_emitted[d] = IF completed = << >> THEN @
                                     ELSE Some(times[Len(times)])]
    IN IF ~IncreasesLap(opponent_tracker, telemetry) THEN h
       ELSE IF ~CompletesLap(opponent_tracker, telemetry)
       THEN [h EXCEPT !.out_lap[d] = TRUE]
       ELSE [h EXCEPT
                !.out_lap[d] = FALSE,
                !.best_seen[d] = IF @ = None THEN Some(t) ELSE Some(Min(Val(@), t)),
                !.script[d] = IF follows THEN k + 1 ELSE -1,
                !.emitted[d] = IF follows THEN @ \o times ELSE << >>]

\* One call of update_opponent; excluded is the set of control types the
\* vehicles show besides the one of their driver.
UpdateOpponentOn(excluded) ==
    \E telemetry \in OpponentSamples(excluded) :
        LET d == telemetry.driver_name
        IN /\ (d # "") => (/\ telemetry.lap \in LapsOf(d)
                           /\ (telemetry.control \in ExcludedControls
                               \/ telemetry.last_lap_time \in LastLapTimesOf(d)))
           \* a vehicle under an excluded control reports the lap after the
           \* stored one, with a valid last lap time
           /\ (d # "" /\ telemetry.control \in ExcludedControls)
                  => telemetry.lap = OpponentLap(opponent_tracker, d) + 1
           \* a lap counter stays, counts up, or starts again at 0 or 1
           /\ telemetry.lap \in {0, 1, OpponentLap(opponent_tracker, d),
                                 OpponentLap(opponent_tracker, d) + 1,
                                 OpponentLap(opponent_tracker, d) + 2}
           \* the last lap time is read at a lap increase only; the samples
           \* in between carry none
           /\ \/ IncreasesLap(opponent_tracker, telemetry)
              \/ telemetry.control \in ExcludedControls
              \/ telemetry.last_lap_time = 0
           /\ \E r \in {update_opponent(opponent_tracker, telemetry, None)} :
                 /\ Buffered(r.tracker) <= MaxOpponentSamples
                 /\ opponent_tracker' = r.tracker
                 /\ op' = [name |-> "update_opponent", telemetry |-> telemetry,
                           completed |-> [i \in 1..Len(r.completed) |->
                                            Emitted(r.completed[i])],
                           tracked |-> Tracked(opponent_tracker, telemetry),
                           prev_lap |-> OpponentLap(opponent_tracker, d),
                           prev_best |-> IF d = "" THEN None
                                         ELSE hist.best_seen[d],
                           prev_fastest |-> FastestOf(opponent_tracker, d),
                           kept |-> r.tracker = opponent_tracker,
                           after_out_lap |-> d # "" /\ hist.out_lap[d]]
                 /\ hist' = IF d = "" THEN hist
                            ELSE HistAfterOpponent(telemetry, r.completed)
           /\ UNCHANGED <<_min_speed_kmh, session_manager, running, paused, suspend_logging, now>>

UpdateOpponent == UpdateOpponentOn({})

ResetOpponents ==
    /\ opponent_tracker' = reset(opponent_tracker)
    /\ op' = [name |-> "reset"]
    /\ hist' = HistInit
    /\ UNCHANGED <<_min_speed_kmh, session_manager, running, paused, suspend_logging, now>>

NextOpp == UpdateOpponent \/ ResetOpponents

SpecOpp == InitOpp /\ [][NextOpp]_vars

\* The same tracker among vehicles of every control type, over the first
\* laps.
UpdateAnyControl ==
    /\ UpdateOpponentOn(ExcludedControls)
    /\ op'.telemetry.lap \in {0, 1, 2}

NextFilter == UpdateAnyControl \/ ResetOpponents

SpecFilter == InitOpp /\ [][NextFilter]_vars

---------------------------------------------------------------------------
\* The loop with opponents on track: get_all_vehicles() would list a remote
\* driver on the first lap, then on the second with a completed lap time. The
\* local car stands in the garage or drives.
FeedSamples ==
    {[NoTelemetry EXCEPT !.lap = 1, !.lap_distance = Some(d),
                         !.speed = Some(s)] :
        d \in LoopDistances, s \in Speeds}
Vehicles ==
    {NoOpponents} \cup
    {<<[NoOpponentTelemetry EXCEPT !.driver_name = "alice",
                                   !.control = ControlOf("alice"),
                                   !.lap = l, !.last_lap_time = t]>> :
        l \in 1..2, t \in {0, CompletedTimes[1]}}

TickWithOpponents == TickOn(Optional(FeedSamples), Vehicles)

NextFeed == StartLoop \/ Pause \/ Resume \/ TickWithOpponents

SpecFeed == InitLoop /\ [][NextFeed]_vars

---------------------------------------------------------------------------
(* Stop conditions as the last update saw them *)

IsUpdate == op.name = "update"

Stopped == op.events.session_stopped

\* The sample moved back by more than the tolerance against the lap
\* distance of the previous update.
JumpedBack ==
    /\ op.telemetry.lap_distance # None
    /\ op.prev_distance # None
    /\ Val(op.telemetry.lap_distance) + session_manager.lap_reset_tolerance
          < Val(op.prev_distance)

\* The time from instant p to the update is at least the idle timeout.
IdleSince(p) ==
    /\ session_manager.idle_timeout > 0
    /\ op.timestamp # None
    /\ p # None
    /\ Val(op.timestamp) - Val(p) >= session_manager.idle_timeout

\* C7: update reports lap_distance_reset in exactly those updates whose lap
\* distance plus the tolerance is strictly less than the lap distance of the
\* previous update; the first update never reports it.
C7_TeleportDetection ==
    IsUpdate => (Stopped = "lap_distance_reset" <=> JumpedBack)

\* C7 witness: 500.0 m -> 497.0 m with tolerance 5.0 m, no stop reported.
C7_Witness ==
    /\ IsUpdate
    /\ session_manager.lap_reset_tolerance = LapResetToleranceDefault
    /\ op.prev_distance = Some(5000)
    /\ op.telemetry.lap_distance = Some(4970)
    /\ Stopped = "none"

\* C8 as stated: a timestamped update reports idle_timeout exactly when no
\* lap_distance_reset fires and the time since the last forward move or
\* active speed (or since the timer started, if there was none) is at least
\* the idle timeout.
C8_IdleSinceForwardOrSpeed ==
    (IsUpdate /\ session_manager.idle_timeout > 0 /\ op.timestamp # None) =>
        (Stopped = "idle_timeout" <=>
            (Stopped # "lap_distance_reset" /\ IdleSince(op.claimed_progress)))

\* C8 amended: an update that reported a stop reason is a progress instant
\* too, besides every forward move by more than 0.1 m and every sample at or
\* above the minimum speed (and the first timestamped update and the first
\* lap distance, which start the timer); an update reports idle_timeout
\* exactly when it has a timestamp, reports no lap_distance_reset and the
\* time since the last progress instant is at least the (positive) idle
\* timeout. With a timeout of 0 it is never reported.
C8_IdleTimeout ==
    IsUpdate =>
        (Stopped = "idle_timeout" <=>
            (Stopped # "lap_distance_reset" /\ IdleSince(op.progress_instant)))

\* C8 witness: idle timeout 5.0 s, a stationary sample 5.1 s after the last
\* progress instant reports idle_timeout.
C8_Witness ==
    /\ IsUpdate
    /\ session_manager.idle_timeout = IdleTimeoutDefault
    /\ op.progress_instant = Some(0)
    /\ op.timestamp = Some(IdleTimeoutDefault + 10)
    /\ op.telemetry.speed = Some(0)
    /\ Stopped = "idle_timeout"

\* C9: an update reports at most one stop reason, and lap_distance_reset
\* when the reset condition and the idle condition both hold.
C9_ResetTakesPriority ==
    IsUpdate =>
        /\ Stopped \in {"none", "idle_timeout", "lap_distance_reset"}
        /\ (JumpedBack /\ IdleSince(op.progress_instant))
              => Stopped = "lap_distance_reset"

\* C9 witness: both conditions held in one update.
C9_Witness ==
    /\ IsUpdate
    /\ JumpedBack
    /\ IdleSince(op.progress_instant)
    /\ Stopped = "lap_distance_reset"

\* C10: after an update at time t reported a stop, no update before
\* t + idle_timeout reports idle_timeout, and a sample repeating the
\* previous lap distance does not report lap_distance_reset.
C10_NoImmediateRefire ==
    IsUpdate =>
        /\ (/\ op.prev_stop_time # None
            /\ op.timestamp # None
            /\ Val(op.timestamp)
                  < Val(op.prev_stop_time) + session_manager.idle_timeout)
              => Stopped # "idle_timeout"
        /\ (op.telemetry.lap_distance # None
            /\ op.telemetry.lap_distance = op.prev_distance)
              => Stopped # "lap_distance_reset"

\* C10 witness: a stop at 5.0 s, then a stationary sample 0.1 s later at the
\* same lap distance reports nothing.
C10_Witness ==
    /\ IsUpdate
    /\ op.prev_stop_time = Some(IdleTimeoutDefault)
    /\ op.timestamp = Some(IdleTimeoutDefault + 10)
    /\ op.telemetry.speed = Some(0)
    /\ op.telemetry.lap_distance # None
    /\ op.telemetry.lap_distance = op.prev_distance
    /\ session_manager.idle_timeout = IdleTimeoutDefault
    /\ Stopped = "none"

---------------------------------------------------------------------------
(* Lap changes and the lap buffer *)

IsAddSample == op.name = "add_sample"

Buffer == session_manager.lap_samples

\* C3 as stated: update reports lap_completed if and only if the incoming lap
\* number is strictly greater than the stored one and the stored one is > 0;
\* a lap number that is equal or smaller never reports it.
C3_LapCompletedOnIncrease ==
    IsUpdate =>
        (op.events.lap_completed <=>
            (op.telemetry.lap > op.prev_lap /\ op.prev_lap > 0))

\* C5: within one lap (no lap change, no clear_lap_buffer) the lap time
\* assigned to a sample is at least the one assigned to the previous sample,
\* so the lap times buffered since the lap began are non-decreasing.
C5_MonotonicLapTime ==
    /\ (IsAddSample /\ op.prev_assigned # None)
          => op.normalized.LapTime >= Val(op.prev_assigned)
    /\ \A i, j \in (hist.seg_start + 1)..Len(Buffer) :
          i < j => Buffer[i].LapTime <= Buffer[j].LapTime

\* C5 witness: a sample whose timestamp lies before the previous sample's
\* and whose reported lap time is negative, added as second of its lap.
C5_Witness ==
    /\ IsAddSample
    /\ op.prev_assigned # None
    /\ Val(op.prev_assigned) > 0
    /\ op.timestamp # None
    /\ session_manager.lap_start_timestamp # None
    /\ Val(op.timestamp) - Val(session_manager.lap_start_timestamp)
          < Val(op.prev_assigned)
    /\ op.reported # None
    /\ Val(op.reported) < 0
    /\ Len(Buffer) >= hist.seg_start + 2

\* C6: add_sample of a record equal, lap time included, to the buffer's last
\* entry leaves the buffer length unchanged; any other record is appended.
C6_IdempotentDuplicates ==
    IsAddSample =>
        IF op.prev_last # None /\ op.normalized = Val(op.prev_last)
        THEN Len(Buffer) = op.prev_len
        ELSE Len(Buffer) = op.prev_len + 1
             /\ Buffer[Len(Buffer)] = op.normalized

\* C6 witness: A, B, A are all kept, and a second A is suppressed.
C6_Witness ==
    /\ IsAddSample
    /\ Len(Buffer) = 3
    /\ op.prev_len = 3
    /\ Buffer[1] = Buffer[3]
    /\ Buffer[1] # Buffer[2]
    /\ Buffer[1].LapDistance = Buffer[2].LapDistance
    /\ Buffer[1].LapTime = Buffer[2].LapTime

---------------------------------------------------------------------------
(* Opponent laps *)

IsUpdateOpponent == op.name = "update_opponent"

\* The call raised a tracked driver's lap number from a lap > 0 and carried a
\* positive last lap time.
CompletedLap ==
    /\ IsUpdateOpponent
    /\ op.tracked
    /\ op.prev_lap > 0
    /\ op.telemetry.lap > op.prev_lap
    /\ op.telemetry.last_lap_time > 0

\* C1: a lap increase with a positive last lap time returns a record exactly
\* when that time is below every positive time of the driver's earlier lap
\* increases; the record carries that time, no record is as slow as the
\* driver's previous one, and the completed times 95.2, 101.0, 88.4, 140.0,
\* 80.0 give the records 95.2, 88.4, 80.0.
C1_FastestLapOnly ==
    /\ CompletedLap =>
         /\ (op.completed # << >>) <=>
               (op.prev_best = None
                \/ op.telemetry.last_lap_time < Val(op.prev_best))
         /\ Len(op.completed) <= 1
         /\ \A i \in 1..Len(op.completed) :
               /\ op.completed[i].lap_time = op.telemetry.last_lap_time
               /\ op.completed[i].driver_name = op.telemetry.driver_name
    /\ ~hist.emitted_slower
    /\ \A d \in Drivers :
          hist.script[d] = Len(CompletedTimes) => hist.emitted[d] = EmittedTimes

\* A driver has completed the five laps of CompletedTimes, the last of them
\* recorded, and a slower lap before went unrecorded.
C1_Witness ==
    /\ CompletedLap
    /\ op.completed # << >>
    /\ hist.script[op.telemetry.driver_name] = Len(CompletedTimes)
    /\ Len(hist.emitted[op.telemetry.driver_name]) < Len(CompletedTimes)

---------------------------------------------------------------------------
(* Lap delivery by the polling loop *)

IsRunOnce == op.name = "run_once"

\* The tick read a sample and nothing raised.
TickCompleted == IsRunOnce /\ op.read /\ ~Val(op.status).error

\* C2: a completed tick that raises the lap number from n > 0 to n+1 over a
\* non-empty buffer delivers exactly one summary, for lap n, marked complete,
\* and leaves in the buffer nothing of the delivered lap.
C2_NormalLapSummary ==
    (/\ TickCompleted
     /\ op.prev_lap > 0
     /\ op.prev_len > 0
     /\ session_manager.current_lap = op.prev_lap + 1)
    => /\ Len(op.calls) = 1
       /\ op.calls[1].lap_summary.lap = op.prev_lap
       /\ op.calls[1].lap_summary.lap_completed
       /\ Len(Buffer) <= 1
       /\ \A i \in 1..Len(hist.handed_over) : ~hist.handed_over[i]

\* C4: no buffered sample is given to the callback twice, and a tick calls
\* the callback at most once.
C4_ExactlyOnceDelivery ==
    /\ ~hist.handed_twice
    /\ IsRunOnce => Len(op.calls) <= 1

---------------------------------------------------------------------------
(* The loop under control calls and failing collaborators *)

IsTick == op.name = "tick"

\* C17: run_once never raises to its caller: whatever the process check, the
\* availability check, the read or the callback do, the tick ends with a
\* returned status record.
C17_NoExceptionLeavesRunOnce ==
    IsTick => ~op.raised

IsControlCall == op.name \in {"start", "stop", "pause", "resume"}
IsLoopCall == IsTick \/ IsControlCall \/ op.name = "run_once_stopped"
ProcessAbsent == IsTick /\ op.process_check = Some(FALSE)
TickFailed == IsTick /\ op.status_error

SessionStates == {"idle", "detected", "logging", "paused", "error"}

ClaimedEdges ==
    {<<"idle", "detected">>, <<"detected", "logging">>,
     <<"logging", "paused">>, <<"paused", "logging">>,
     <<"logging", "error">>}

RECURSIVE ClaimedPath(_, _, _)
ClaimedPath(from, to, n) ==
    \/ from = to
    \/ /\ n > 0
       /\ \E via \in SessionStates :
              <<from, via>> \in ClaimedEdges /\ ClaimedPath(via, to, n - 1)

\* C11 as stated: a call leaves the state where it was or moves it along
\* Idle -> Detected, Detected -> Logging, Logging -> Paused, Paused -> Logging,
\* Logging -> Error (a tick may take several of these steps in a row), or to
\* Idle on a tick that finds the process absent.
C11_ClaimedTransitions ==
    IsLoopCall =>
        \/ ProcessAbsent /\ session_manager.state = "idle"
        \/ IsTick /\ ClaimedPath(op.prev_state, session_manager.state, 4)
        \/ ~IsTick /\ ClaimedPath(op.prev_state, session_manager.state, 1)


\* C18: a tick that finds the target process absent ends, from any prior
\* state, with session state Idle, an empty lap buffer and the suspension flag
\* cleared; it reads no telemetry and gives nothing to the callback.
C18_ProcessAbsentForcesIdle ==
    ProcessAbsent =>
        /\ session_manager.state = "idle"
        /\ session_manager.lap_samples = << >>
        /\ ~suspend_logging
        /\ ~op.read
        /\ op.delivered = << >>
        /\ op.flushes = << >>
        /\ op.status_state = op.prev_state

\* An unfinished lap was in the buffer when the process went away.
C18_Witness ==
    /\ ProcessAbsent
    /\ op.prev_state = "logging"
    /\ ~op.buffer_kept
    /\ session_manager.lap_samples = << >>

StopReported == IsTick /\ op.stop_reason # "none"
ActiveSample ==
    IsTick /\ op.speed # None /\ Val(op.speed) >= _min_speed_kmh

\* C12: after a tick reports a stop reason the loop is suspended and the
\* sample of that tick is not appended to the lap buffer; a following tick
\* that reads while suspended appends nothing and stays suspended when the
\* speed of its sample is below the configured minimum, and ends the
\* suspension when it is at or above it.
C12_SuspendedAfterStop ==
    /\ StopReported => suspend_logging /\ ~op.appended
    /\ (IsTick /\ op.was_suspended /\ op.read /\ ~op.status_error
            /\ ~StopReported)
           => IF ActiveSample THEN ~suspend_logging
              ELSE suspend_logging /\ ~op.appended

\* C13: every lap summary delivered for a lap_completed event has
\* lap_completed true and no stop_reason; every lap summary delivered for a
\* stop reason has lap_completed false and that reason as stop_reason; after
\* either flush the lap buffer is empty.
C13_CompletionFlags ==
    IsTick =>
        \A i \in 1..Len(op.flushes) :
            LET flush == op.flushes[i]
            IN /\ \A j \in 1..Len(flush.delivered) :
                      IF flush.cause = "lap_completed"
                      THEN /\ flush.delivered[j].lap_completed
                           /\ flush.delivered[j].stop_reason = "none"
                      ELSE /\ ~flush.delivered[j].lap_completed
                           /\ flush.delivered[j].stop_reason = flush.cause
                           /\ flush.cause \in {"idle_timeout",
                                               "lap_distance_reset"}
               /\ flush.buffer_after = 0

\* C14: on every tick in which the process is present and telemetry is
\* available, each visible opponent sample is passed to the opponent tracker
\* (which then knows every driver it tracks), whatever the local player does.
C14_OpponentsFed ==
    (IsTick /\ op.process_check = Some(TRUE)
        /\ op.availability_check = Some(TRUE)) =>
        \A i \in 1..Len(op.visible) :
            LET vehicle == op.visible[i]
            IN (/\ vehicle.driver_name # ""
                /\ should_track(vehicle.control, opponent_tracker.track_ai))
                   => vehicle.driver_name \in DOMAIN opponent_tracker.opponents

ReadRaised == IsTick /\ op.read_raised

\* C15: if reading the local sample raises during a tick, the tick ends with
\* session state Error, returns a status record with state Error that carries
\* the error, gives nothing to the callback, and leaves in the lap buffer
\* exactly what it held before the tick.
C15_ReadFailure ==
    ReadRaised =>
        /\ session_manager.state = "error"
        /\ ~op.raised
        /\ op.status_state = "error"
        /\ op.status_error
        /\ op.delivered = << >>
        /\ op.flushes = << >>
        /\ op.buffer_kept

\* The read raised while samples of an unfinished lap were buffered.
C15_Witness ==
    /\ ReadRaised
    /\ op.prev_state = "logging"
    /\ session_manager.lap_samples # << >>

\* C16: once the session state is Error it remains Error after every later
\* tick and control call, and no later tick reads telemetry, appends to the
\* lap buffer or flushes a lap, until a tick finds the process absent.
C16_ErrorIsTerminal ==
    (IsLoopCall /\ op.prev_state = "error" /\ ~ProcessAbsent) =>
        /\ session_manager.state = "error"
        /\ IsTick => ~op.read /\ ~op.appended /\ op.flushes = << >>

---------------------------------------------------------------------------
(* Out-laps and the records of the opponent tracker *)

\* The call raised a tracked driver's lap number from a lap > 0 and carried
\* no valid last lap time.
OutLap ==
    /\ IsUpdateOpponent
    /\ op.tracked
    /\ op.prev_lap > 0
    /\ op.telemetry.lap > op.prev_lap
    /\ op.telemetry.last_lap_time <= 0

StoredOpponent == opponent_tracker.opponents[op.telemetry.driver_name]

\* What an out-lap does: no record, the driver's buffer reset, the stored
\* fastest time left and the new lap number stored.
OutLapEffect ==
    OutLap =>
        /\ op.completed = << >>
        /\ StoredOpponent.samples = << >>
        /\ StoredOpponent.fastest_lap_time = op.prev_fastest
        /\ StoredOpponent.current_lap = op.telemetry.lap

\* C19 as stated: a lap increase of a tracked driver (previous lap > 0) with
\* a last lap time <= 0 returns no record, resets the driver's buffer, leaves
\* the stored fastest time and stores the new lap number, and the first lap
\* increase with a positive time after it returns a record.
C19_FirstPositiveLapEmitted ==
    /\ OutLapEffect
    /\ (CompletedLap /\ op.after_out_lap) => op.completed # << >>

\* C19, amended: a lap increase of a tracked driver (previous lap > 0) with a
\* last lap time <= 0 returns no record, resets the driver's buffer, leaves
\* the stored fastest time and stores the new lap number; the first lap
\* increase with a positive time after it falls under the normal emission
\* rule: it returns a record exactly when the driver has no fastest time yet
\* or the time is below the stored fastest time.
C19_OutLap ==
    /\ OutLapEffect
    /\ (CompletedLap /\ op.after_out_lap) =>
          /\ (op.completed # << >>) <=>
                faster_than_fastest(op.telemetry.last_lap_time, op.prev_fastest)
          /\ op.prev_fastest = Infinity => op.completed # << >>

\* The first lap with a valid time after an out-lap, returned as a record.
C19_Witness ==
    /\ CompletedLap
    /\ op.after_out_lap
    /\ op.prev_fastest = Infinity
    /\ op.completed # << >>

\* C20: a record returned at a lap increase carries the driver's name, as
\* lap_number the lap stored before the increase, as lap_time the sample's
\* last_lap_time (not its lap_time, the timer of the lap in progress),
\* is_fastest true, and as samples the driver's buffer as it stood before
\* the call, in its order; the call leaves the driver a new buffer that
\* holds the sample of the call only.
C20_EmittedRecord ==
    (IsUpdateOpponent /\ op.completed # << >>) =>
        /\ Len(op.completed) = 1
        /\ op.telemetry.lap > op.prev_lap
        /\ op.completed[1].driver_name = op.telemetry.driver_name
        /\ op.completed[1].lap_number = op.prev_lap
        /\ op.completed[1].lap_time = op.telemetry.last_lap_time
        /\ op.completed[1].lap_time # op.telemetry.lap_time
        /\ op.completed[1].is_fastest
        /\ op.completed[1].samples_as_buffered
        /\ StoredOpponent.samples = <<op.telemetry>>

\* A record that carries more than one buffered sample.
C20_Witness ==
    /\ IsUpdateOpponent
    /\ op.completed # << >>
    /\ op.completed[1].n_samples > 1
    /\ op.completed[1].lap_number > 1

\* The sample of the call is one the control filter excludes.
ExcludedSample ==
    /\ IsUpdateOpponent
    /\ \/ op.telemetry.driver_name = ""
       \/ op.telemetry.control \in {-1, 0, 3}
       \/ op.telemetry.control = 1 /\ ~opponent_tracker.track_ai

\* C21: the tracker holds state only for drivers that were seen with control
\* remote (2), or AI (1) when AI tracking is enabled; a sample with control
\* local player (0), unknown (-1), replay (3), AI while AI tracking is
\* disabled, or with an empty driver name creates no state, changes no state
\* and returns no record.
C21_ControlFilter ==
    /\ DOMAIN opponent_tracker.opponents \subseteq hist.followed
    /\ ExcludedSample => op.kept /\ op.completed = << >>

\* A replay sample of a driver the tracker follows, which would complete a
\* lap if it were counted.
C21_Witness ==
    /\ ExcludedSample
    /\ op.telemetry.control = 3
    /\ op.prev_lap > 0
    /\ op.telemetry.lap > op.prev_lap
    /\ op.telemetry.last_lap_time > 0
    /\ op.telemetry.driver_name \in DOMAIN opponent_tracker.opponents

---------------------------------------------------------------------------
(* Sector resolution *)

IsNormalize == op.name = "normalize"

\* normalize returned a record for a sample with a boundary list
ResolvedWithBoundaries ==
    IsNormalize /\ ~op.raised /\ op.telemetry.sector_boundaries # << >>

\* C22: for a raw sample without explicit sector field and with a non-empty
\* increasing boundary list, the normalized sector is the (zero-based) index
\* of the first boundary strictly greater than the lap distance, or the last
\* index when no boundary is greater; the index lies in [0, len - 1].
C22_SectorFromBoundaries ==
    (ResolvedWithBoundaries /\ op.telemetry.sector = None) =>
        LET b == op.telemetry.sector_boundaries
            d == Val(op.normalized).LapDistance
            sector == Val(op.normalized).Sector
        IN /\ sector \in 0..(Len(b) - 1)
           /\ IF \E i \in 1..Len(b) : b[i] > d
              THEN b[sector + 1] > d /\ \A i \in 1..sector : ~(b[i] > d)
              ELSE sector = Len(b) - 1

\* C22 witness: a lap distance that equals the first of three boundaries
\* is in the second sector.
C22_Witness ==
    /\ ResolvedWithBoundaries /\ op.telemetry.sector = None
    /\ op.telemetry.sector_boundaries = <<10000, 20000, 30000>>
    /\ op.telemetry.lap_distance = Some(10000)
    /\ Val(op.normalized).Sector = 1

\* C23: whenever a boundary list of length n is present, with or without an
\* explicit sector field, the normalized sector index is in [0, n - 1].
C23_SectorInRange ==
    ResolvedWithBoundaries =>
        Val(op.normalized).Sector
            \in 0..(Len(op.telemetry.sector_boundaries) - 1)

\* The record normalize returned is within the ranges of the channels, with
\* 0 for the numeric fields the sample lacks and no position where it has
\* none.
WithinRanges(telemetry, sample) ==
    /\ sample.ThrottlePercentage \in 0..10000
    /\ sample.BrakePercentage \in 0..10000
    /\ sample.Steer \in -10000..10000
    /\ telemetry.lap_distance = None => sample.LapDistance = 0
    /\ telemetry.speed = None => sample.Speed = 0
    /\ telemetry.rpm = None => sample.EngineRevs = 0
    /\ telemetry.throttle = None => sample.ThrottlePercentage = 0
    /\ telemetry.brake = None => sample.BrakePercentage = 0
    /\ telemetry.steering = None => sample.Steer = 0
    /\ telemetry.gear = None => sample.Gear = 0
    /\ telemetry.position_x = None => sample.X = None
    /\ telemetry.position_z = None => sample.Z = None

\* C24: normalize is total and range-preserving: for every raw sample, with
\* missing fields and with values of any magnitude or sign, it returns
\* without raising a record in which throttle and brake are in [0,100],
\* steer is in [-100,100], missing numeric fields are 0 and missing
\* positions are none.
C24_NormalizeTotal ==
    IsNormalize =>
        /\ ~op.raised
        /\ WithinRanges(op.telemetry, Val(op.normalized))

---------------------------------------------------------------------------
(* Sector boundary detection *)

IsDetect == op.name = "detect_sector_boundaries"

SplitFields == {"sector1_time", "sector2_time", "sector3_time"}

\* The samples of the call in lap-distance order (equal distances in the
\* order given).
InDistanceOrder(samples, sorted) ==
    /\ Len(sorted) = Len(samples)
    /\ \A i \in 1..(Len(sorted) - 1) :
           sorted[i].lap_distance <= sorted[i + 1].lap_distance
    /\ \E f \in [1..Len(samples) -> 1..Len(samples)] :
           /\ \A i, j \in 1..Len(samples) : i # j => f[i] # f[j]
           /\ \A i \in 1..Len(samples) : sorted[f[i]] = samples[i]
           /\ \A i, j \in 1..Len(samples) :
                  (i < j /\ samples[i].lap_distance = samples[j].lap_distance)
                      => f[i] < f[j]

\* The lap distances of the first sample at which each split is positive.
FirstCrossings(sorted) ==
    {sorted[i].lap_distance : i \in
        {i \in 1..Len(sorted) : \E k \in SplitFields :
            /\ sorted[i][k] > 0
            /\ \A j \in 1..(i - 1) : sorted[j][k] = 0}}

\* The boundaries the walk recorded: those returned, without a track length
\* the result's last step appended or the equal division it fell back to.
Detected ==
    IF op.track_length > 0 /\ op.num_sectors = 3
       /\ op.boundaries = <<op.track_length \div 3, (op.track_length * 2) \div 3,
                             op.track_length>>
    THEN << >>
    ELSE IF op.boundaries # << >>
            /\ op.boundaries[Len(op.boundaries)] = op.track_length
    THEN SubSeq(op.boundaries, 1, Len(op.boundaries) - 1)
    ELSE op.boundaries

\* C25: walking a lap's samples in lap-distance order, the detector records
\* at most one boundary per split field, the lap distance of the first
\* sample at which that split is positive; a split that reads zero again
\* and then positive again adds no further boundary.
C25_FirstCrossingOnly ==
    IsDetect =>
        LET sorted == sorted_samples(op.samples)
        IN /\ InDistanceOrder(op.samples, sorted)
           /\ \A i \in 1..Len(Detected) :
                  Detected[i] \in FirstCrossings(sorted)
           /\ Len(Detected)
                  <= Cardinality({k \in SplitFields :
                                     \E i \in 1..Len(sorted) : sorted[i][k] > 0})

\* No split of the call becomes positive.
NoSplitTransition ==
    \A i \in 1..Len(op.samples) : \A k \in SplitFields : op.samples[i][k] = 0

\* C26: for any samples and any track length L > 0 the detector returns
\* boundaries in non-decreasing order whose last element is at least 95% of
\* L (L itself being appended when the last detected boundary falls short),
\* returns [L/3, 2L/3, L] with count 3 when no split transition is found,
\* and returns a count equal to the number of boundaries (3 when the list
\* is empty).
C26_ResultShape ==
    /\ IsDetect =>
           op.num_sectors = IF op.boundaries = << >> THEN 3
                            ELSE Len(op.boundaries)
    /\ (IsDetect /\ op.track_length > 0) =>
        LET b == op.boundaries
            L == op.track_length
        IN /\ b # << >>
           /\ \A i \in 1..(Len(b) - 1) : b[i] <= b[i + 1]
           /\ 100 * b[Len(b)] >= 95 * L
           /\ NoSplitTransition => (b = <<1800, 3600, 5400>>)
           /\ ~NoSplitTransition =>
                  \A i \in 1..Len(b) :
                      \/ \E j \in 1..Len(op.samples) :
                             op.samples[j].lap_distance = b[i]
                      \/ /\ i = Len(b) /\ i > 1
                         /\ b[i] = L
                         /\ 100 * b[i - 1] < 95 * L

\* C26 witness: one split transition well before the end of the lap, and
\* the track length appended to it.
C26_Witness ==
    /\ IsDetect /\ op.track_length = 5400
    /\ op.boundaries = <<3000, 5400>>
    /\ op.num_sectors = 2

---------------------------------------------------------------------------
(* Lap summary *)

IsLapSummary == op.name = "get_lap_summary"

\* The summary follows an add_sample without timestamp whose sample
\* reported a lap time not below the one assigned before it.
AfterUntimedSample ==
    /\ IsLapSummary
    /\ op.after.name = "add_sample"
    /\ op.after.timestamp = None
    /\ op.after.reported # None
    /\ op.after.prev_assigned # None
           => Val(op.after.reported) >= Val(op.after.prev_assigned)

\* C27: get_lap_summary returns an empty summary for an empty buffer;
\* otherwise its sample count is the buffer length, its lap distance and lap
\* time are those of the last buffered sample, and after a sample added
\* without timestamp the lap time is the lap_time that sample reported.
C27_LapSummary ==
    IsLapSummary =>
        /\ Buffer = << >> => op.summary = None
        /\ Buffer # << >> =>
               /\ op.summary # None
               /\ Val(op.summary).samples_count = Len(Buffer)
               /\ Val(op.summary).lap_distance = Buffer[Len(Buffer)].LapDistance
               /\ Val(op.summary).lap_time = Buffer[Len(Buffer)].LapTime
        /\ AfterUntimedSample =>
               Val(op.summary).lap_time = Val(op.after.reported)

---------------------------------------------------------------------------
(* Ticks that return early *)

PausedTick == IsTick /\ op.was_paused /\ op.process_check = Some(TRUE)

\* C28: while the loop is paused and the process is present, a tick reads no
\* telemetry, appends nothing to the lap buffer, delivers nothing to the
\* callback and leaves the buffer as it was, tick after tick.
C28_PausedTick ==
    PausedTick =>
        /\ ~op.read
        /\ ~op.appended
        /\ op.delivered = << >>
        /\ op.flushes = << >>
        /\ op.buffer_kept
        /\ ~op.raised

\* C28 witness: a paused tick over a buffer that holds samples.
C28_Witness ==
    PausedTick /\ Buffer # << >>

UnavailableTick ==
    /\ IsTick /\ ~op.was_paused
    /\ op.process_check = Some(TRUE) /\ op.availability_check = Some(FALSE)

\* What an unavailable tick leaves as it was: the state (after the step
\* from Idle to Detected), the buffer and the lap number.
LeftAsItWas ==
    /\ session_manager.state =
           IF op.prev_state = "idle" THEN "detected" ELSE op.prev_state
    /\ op.buffer_kept
    /\ session_manager.current_lap = op.prev_lap
    /\ ~op.read
    /\ ~op.telemetry_available

\* C29 as claimed: a tick with the process present, not paused, and the
\* telemetry source unavailable leaves the session state (after the step
\* from Idle to Detected), the lap buffer, the current lap number and the
\* suspension flag unchanged, and returns telemetry_available = false.
C29_UnavailableKeepsSuspension ==
    UnavailableTick =>
        LeftAsItWas /\ suspend_logging = op.was_suspended

\* C30: the status returned by every tick reports as state, lap and
\* samples_buffered the session state, the current lap number and the
\* buffer length that hold when the tick returns.
C30_StatusAccuracy ==
    (IsTick /\ ~op.raised) =>
        /\ op.status_state = session_manager.state
        /\ op.status_lap = session_manager.current_lap
        /\ op.samples_buffered = Len(Buffer)

---------------------------------------------------------------------------
(* Threads *)

\* pause() has returned, the tick that was in progress then has finished
\* and resume() has not been called since.
PauseSettled == op.name = "threads" /\ op.since_pause = "settled"

\* C31: with pause() and resume() called from the presentation thread at any
\* point of a tick of the polling thread, whenever pause() has returned, the
\* tick that was in progress has finished and resume() has not been called,
\* the session state is not Logging and no further sample is appended.
C31_PauseConfinesState ==
    PauseSettled =>
        /\ session_manager.state # "logging"
        /\ ~op.appended_after

---------------------------------------------------------------------------
(* Cancellation *)

InRun == op.name = "run"

\* run_once was entered with the running flag false and has returned.
ReturnedNone == InRun /\ op.stopped /\ op.pc = "sleep" /\ op.status = None

\* C32: run_once called while the running flag is false returns no status
\* and changes no state, buffer or flag; after stop() the loop run()
\* finishes the tick in progress, starts no other tick and terminates.
C32_CooperativeCancellation ==
    /\ [](InRun => ~op.changed_when_stopped /\ ~op.ticks_after_stop)
    /\ (InRun /\ op.stopped) ~> (op.pc = "returned")

\* C32 witness: stop() arrived between the test of the loop and the test
\* of run_once, which returned None over a buffer that holds samples.
C32_Witness ==
    ReturnedNone /\ Buffer # << >>

---------------------------------------------------------------------------
(* The opponents' buffers *)

TrackedDrivers == DOMAIN opponent_tracker.opponents

OpponentBuffer(d) ==
    IF d \in TrackedDrivers THEN opponent_tracker.opponents[d].samples
    ELSE << >>

\* C33: after an update_opponent call for a trackable driver with a sample
\* of positive lap number, first sighting and out-lap increase included,
\* the sample is the last one of the driver's buffer; no buffer ever holds
\* a sample of lap number 0 or less.
C33_PositiveLapBuffered ==
    /\ (IsUpdateOpponent /\ op.tracked /\ op.telemetry.lap > 0) =>
           LET b == OpponentBuffer(op.telemetry.driver_name)
           IN b # << >> /\ b[Len(b)] = op.telemetry
    /\ \A d \in TrackedDrivers :
           \A i \in 1..Len(OpponentBuffer(d)) : OpponentBuffer(d)[i].lap > 0

\* The call was made for a driver beside another one whose buffer holds
\* samples, or it was a reset of a tracker that followed somebody.
UpdateBesideAnother ==
    /\ IsUpdateOpponent /\ op.tracked
    /\ \E x \in TrackedDrivers \ {op.telemetry.driver_name} :
           OpponentBuffer(x) # << >>

\* C34: an update_opponent call for one driver leaves the state of every
\* other tracked driver as it was and removes no driver; the count of
\* opponents is the number of tracked names, it grows by one when a
\* trackable driver is seen for the first time and by nothing otherwise,
\* and reset() leaves it at 0.
C34_OtherDriversUntouched ==
    [][/\ (op'.name = "update_opponent") =>
            /\ \A x \in TrackedDrivers \ {op'.telemetry.driver_name} :
                   /\ x \in DOMAIN opponent_tracker'.opponents
                   /\ opponent_tracker'.opponents[x] = opponent_tracker.opponents[x]
            /\ TrackedDrivers \subseteq DOMAIN opponent_tracker'.opponents
            /\ get_opponent_count(opponent_tracker') =
                   get_opponent_count(opponent_tracker)
                   + (IF /\ op'.tracked
                         /\ op'.telemetry.driver_name \notin TrackedDrivers
                      THEN 1 ELSE 0)
            /\ get_opponent_count(opponent_tracker') =
                   Cardinality({x \in Drivers :
                                  x \in DOMAIN opponent_tracker'.opponents})
      /\ (op'.name = "reset") => get_opponent_count(opponent_tracker') = 0]_vars

\* C34 witness: a driver was updated while the other one had samples
\* buffered.
C34_Witness == UpdateBesideAnother

\* C40: every sample in a driver's buffer has the lap number stored as the
\* driver's current lap.
C40_BufferHoldsOneLap ==
    \A d \in TrackedDrivers :
        \A i \in 1..Len(OpponentBuffer(d)) :
            OpponentBuffer(d)[i].lap = opponent_tracker.opponents[d].current_lap

---------------------------------------------------------------------------
(* Track length *)

IsTrackUpdate == op.name = "update" /\ "seen_max" \in DOMAIN op

\* C35: over any sequence of update calls the track length never
\* decreases, and after each update it is at least the largest positive
\* explicit track length and the largest lap distance observed so far.
C35_TrackLengthRunningMax ==
    IsTrackUpdate =>
        /\ session_manager.track_length >= op.prev_track_length
        /\ session_manager.track_length >= op.seen_max

\* C35 witness: an update with a track length below the stored one, after
\* a lap distance beyond every explicit track length.
C35_Witness ==
    /\ IsTrackUpdate
    /\ op.telemetry.track_length = Some(5000)
    /\ op.prev_track_length = 5450
    /\ session_manager.track_length = 5450

---------------------------------------------------------------------------
(* Session id, buffer and session state *)

\* C36: in every state the orchestrator reaches by ticks and control calls,
\* session state Logging implies that a session id has been generated.
C36_SessionIdWhileLogging ==
    session_manager.state = "logging"
        => session_manager.current_session_id # None

\* The step is a tick of a logging, unsuspended, unpaused loop that finds
\* the process, finds telemetry, reads a sample at or above the minimum
\* speed and fails nowhere, right after a tick that read such a sample.
ActiveLoggingTick ==
    /\ op.name = "tick"
    /\ op.speed # None
    /\ Val(op.speed) >= _min_speed_kmh
    /\ op'.name = "tick"
    /\ session_manager.state = "logging"
    /\ ~suspend_logging
    /\ ~op'.was_paused
    /\ op'.process_check = Some(TRUE)
    /\ op'.availability_check = Some(TRUE)
    /\ op'.read /\ ~op'.read_raised /\ ~op'.status_error
    /\ op'.speed # None
    /\ Val(op'.speed) >= _min_speed_kmh

\* C37: while the process is present, telemetry is available, the loop is
\* not paused and the samples are at or above the minimum speed, a tick
\* keeps the session id and the state Logging, also when the lap number
\* increases and the lap distance wraps.
C37_SessionIdStable ==
    [][ActiveLoggingTick =>
           /\ session_manager'.state = "logging"
           /\ session_manager'.current_session_id =
                  session_manager.current_session_id]_vars

\* C38: a tick appends a sample to the lap buffer only if the session
\* state is Logging when the sample is appended (nothing changes the state
\* between the append and the end of the tick).
C38_BufferingOnlyWhileLogging ==
    (IsTick /\ op.appended) => session_manager.state = "logging"

\* C39: session state Idle implies an empty lap buffer, after every tick
\* and every control call.
C39_IdleMeansEmpty ==
    session_manager.state = "idle" => Buffer = << >>

\* C39 witness: a tick found the process absent while samples were
\* buffered and the session was not logging.
C39_Witness ==
    /\ IsTick
    /\ op.process_check = Some(FALSE)
    /\ op.prev_state \in {"paused", "error"}
    /\ op.samples_buffered > 0
    /\ session_manager.state = "idle"
    /\ Buffer = << >>

====
